---- MODULE Spec2Model ----
(***************************************************************************)
(* Review-Analyser: the weekly review pipeline (main.py), its stages       *)
(* (scraper.py, analyzer.py, report_generator.py, email_mailer.py) and the *)
(* stand-alone variants (scraper.py run as a script, ios_scraper_rss.py,   *)
(* send_test_email.py, analyzer_executive.py, configure.py) as one state   *)
(* machine.  The variable entry says which script was started.            *)
(*                                                                         *)
(* Time is counted in ticks, DayLen ticks to a calendar day; a datetime is *)
(* a tick, and a 'YYYY-MM-DD' date is the tick of that day's midnight.     *)
(***************************************************************************)
EXTENDS Integers, Sequences, FiniteSets, TLC

\* ---------------------------------------------------------------- bounds
DayLen == 2            \* ticks per calendar day
Window == 1            \* feed timestamps lie within Window ticks of the cutoff
MaxWeeks == 1          \* WEEKS_TO_ANALYZE ranges over 0..MaxWeeks
MaxDrift == 1          \* ticks the clock may advance during one run
MaxAndroid == 2        \* most items the Android feed returns (scraper.py run)
MaxIOS == 1            \* most entries the iOS feed serves (scraper.py run)
MainMaxFeed == 1       \* most items per platform in a run of main.py
MaxFaults == 1         \* most anomalies (I/O, API, SMTP) in a run of main.py
MaxApiItems == 1       \* most items in a JSON array the API returns
MaxExecReviews == 3    \* largest collection given to the executive analyzer
MaxCollection == 201   \* largest collection size a review count is derived for
MaxRssDated == 1       \* most entries with a readable date served to ios_scraper_rss.py

\* star rating carried by the feed items
FeedRatings == {4}

\* configured MAX_THEMES
MaxThemesChoices == {1, 5}

\* star ratings of the collections given to the executive analyzer
ExecRatings == 1..5

\* ------------------------------------------------------ program constants
DaysPerWeek == 7
max_pages == 10
ScriptWeeks == 10
SampleLimit == 200
ExecSampleLimit == 300
LowCap == 100
MidCap == 50
HighCap == 150

VARIABLES
  entry,            \* the script that was started
  pc,               \* position of the script
  exit_status,      \* -1 while running, then the process exit status
  log,              \* calls, returns and raises of the stages
  clock,            \* the last value datetime.now() gave
  faults,           \* anomalies so far
  weeks_to_analyze, \* ReviewScraper.weeks_to_analyze (-1 before construction)
  cutoff_date,      \* ReviewScraper.cutoff_date (-1 before construction)
  android_reviews,  \* value returned by scrape_play_store
  android_got,      \* records appended to reviews_data before the return
  android_err,      \* scrape_play_store went through its except branch
  page,             \* page of the iOS loop (0 outside the loop)
  ios_reviews,      \* all_reviews of scrape_app_store
  ios_got,          \* records appended to all_reviews before the loop ended
  ios_err,          \* what ended the iOS paging
  ios_blank,        \* first page that had no parseable entry (0: none so far)
  reviews_df,       \* the DataFrame returned by scrape_all
  files,            \* files written so far
  max_themes,       \* ReviewAnalyzer.max_themes (-1 before construction)
  api,              \* outcome of each text-generation request, in order
  requests,         \* the text-generation requests issued, in order
  themes,           \* analyze_reviews: themes
  quotes,           \* analyze_reviews: quotes
  analysis,         \* the analysis result
  report_paths,     \* the paths handed to send_weekly_report
  email_sent,       \* "none", then the value of send_weekly_report
  smtp,             \* the mail-relay connection and the messages submitted
  unit,             \* a single function applied on its own: name, argument, result
  setup             \* configure.py: the settings file and the prompts answered

vars == <<entry, pc, exit_status, log, clock, faults, weeks_to_analyze,
          cutoff_date, android_reviews, android_got, android_err, page,
          ios_reviews, ios_got, ios_err, ios_blank, reviews_df, files, max_themes, api, requests, themes,
          quotes, analysis, report_paths, email_sent, smtp, unit, setup>>

scraperVars == <<weeks_to_analyze, cutoff_date, android_reviews, android_got,
                 android_err, page, ios_reviews, ios_got, ios_err, ios_blank, reviews_df>>

analyzerVars == <<max_themes, api, requests, themes, quotes, analysis>>

mailVars == <<report_paths, email_sent, smtp>>

\* ------------------------------------------------------------- helpers
Range(s) == {s[i] : i \in 1..Len(s)}

SeqsUpTo(S, n) == UNION {[1..k -> S] : k \in 0..n}

Min(a, b) == IF a < b THEN a ELSE b

Max(a, b) == IF a > b THEN a ELSE b

\* s[:n] for n >= 0
Take(s, n) == SubSeq(s, 1, Min(n, Len(s)))

\* timedelta(weeks=w) in ticks
Weeks(w) == w * DaysPerWeek * DayLen

\* strftime('%Y-%m-%d') followed by pd.to_datetime: midnight of that day
StrfDate(t) == t - (t % DayLen)

\* clock values at process start: every time of day of one calendar day
StartClocks ==
  {Weeks(Max(MaxWeeks, ScriptWeeks)) + DayLen * Window + d : d \in 0..(DayLen - 1)}

\* timestamps a feed may carry, around the cutoff
FeedTimes == (cutoff_date - Window)..(cutoff_date + Window)

Ev(e, f) == [ev |-> e, fn |-> f]

Called(f) == \E i \in 1..Len(log) : log[i] = Ev("call", f)

Returned(f) == \E i \in 1..Len(log) : log[i] = Ev("ret", f)

Raised(f) == \E i \in 1..Len(log) : log[i] = Ev("raise", f)

\* an anomaly of the environment, counted against MaxFaults
Fault == faults < MaxFaults /\ faults' = faults + 1

Propagate_ExitZero(evs) ==
  /\ log' = log \o evs
  /\ pc' = "exited"
  /\ exit_status' = 0

\* an exception reaches the caller of stage f.  main(): the except clause
\* prints the trace and calls sys.exit(1); a script without a handler dies
\* with the interpreter's status 1.
Propagate(evs) ==
  /\ log' = log \o evs
  /\ pc' = "exited"
  /\ exit_status' = 1

\* ------------------------------------------------------------ Collector
\* ReviewScraper.__init__: fixes the cutoff instant.  main.py passes the
\* configured WEEKS_TO_ANALYZE, scraper.py run as a script passes 10.
ReviewScraperInit ==
  /\ pc = "start"
  /\ entry \in {"main", "scraper"}
  /\ \E w \in (IF entry = "main" THEN 0..MaxWeeks ELSE {ScriptWeeks}) :
       /\ weeks_to_analyze' = w
       /\ cutoff_date' = clock - Weeks(w)
  /\ log' = log \o <<Ev("call", "ReviewScraper"), Ev("ret", "ReviewScraper")>>
  /\ pc' = "scrape_play_store"
  /\ UNCHANGED <<entry, exit_status, clock, faults, android_reviews,
                 android_got, android_err, page, ios_reviews, ios_got, ios_err, ios_blank,
                 reviews_df, files>>
  /\ UNCHANGED <<analyzerVars, mailVars>>
  /\ UNCHANGED <<unit, setup>>

\* items reviews_all may return: kind "ok", or an item lacking 'at' or 'content'
AndroidItems ==
  [kind : {"ok", "no_at", "no_content"}, at : FeedTimes, score : FeedRatings]

AndroidRecord(it) ==
  [platform |-> "Android", rating |-> it.score, at |-> it.at,
   date |-> StrfDate(it.at)]

PassesCutoff_Always(t) == TRUE

\* the date filter of both platform scrapes
PassesCutoff(t) == t >= cutoff_date

\* the loop of scrape_play_store over the first n items of result:
\* [out |-> reviews_data, raised |-> an item raised KeyError]
RECURSIVE PlayLoop(_, _)
PlayLoop(result, n) ==
  IF n = 0 THEN [out |-> <<>>, raised |-> FALSE]
  ELSE LET prev == PlayLoop(result, n - 1)
           it == result[n]
       IN IF prev.raised THEN prev
          ELSE IF it.kind = "no_at" THEN [prev EXCEPT !.raised = TRUE]
          ELSE IF PassesCutoff(it.at)
            THEN IF it.kind = "no_content"
                   THEN [prev EXCEPT !.raised = TRUE]
                   ELSE [prev EXCEPT !.out = Append(@, AndroidRecord(it))]
            ELSE prev

PlayStoreReturn_NoCatch(loop) == [raised |-> loop.raised, value |-> loop.out]

\* how scrape_play_store ends: the except clause turns every exception into
\* the return value []
PlayStoreReturn(loop) ==
  [raised |-> FALSE, value |-> IF loop.raised THEN <<>> ELSE loop.out]

\* most items per platform the feeds serve to this script
FeedLimit(most) == IF entry = "main" THEN MainMaxFeed ELSE most

\* scrape_all up to the return of scrape_play_store: reviews_all raises, or
\* returns a list that is filtered
ScrapePlayStore ==
  /\ pc = "scrape_play_store"
  /\ \E loop \in {[out |-> <<>>, raised |-> TRUE]} \cup
                 {PlayLoop(result, Len(result)) :
                    result \in SeqsUpTo(AndroidItems, FeedLimit(MaxAndroid))} :
       /\ android_got' = loop.out
       /\ android_err' = loop.raised
       /\ android_reviews' = PlayStoreReturn(loop).value
       /\ IF PlayStoreReturn(loop).raised
            THEN /\ Propagate(<<Ev("call", "scrape_all"), Ev("raise", "scrape_all")>>)
                 /\ UNCHANGED page
            ELSE /\ log' = Append(log, Ev("call", "scrape_all"))
                 /\ pc' = "scrape_app_store"
                 /\ page' = 1
                 /\ UNCHANGED exit_status
  /\ UNCHANGED <<entry, clock, faults, weeks_to_analyze,
                 cutoff_date, ios_reviews, ios_got, ios_err, ios_blank, reviews_df, files>>
  /\ UNCHANGED <<analyzerVars, mailVars>>
  /\ UNCHANGED <<unit, setup>>

\* entries of one iOS feed page: an entry the parser chokes on ("bad"), or
\* one with a rating label (0: no im:rating field), a date format and a time
IOSEntries ==
  [kind : {"bad"}, label : {0}, fmt : {"none"}, at : {0}] \cup
  [kind : {"ok"}, label : {0} \cup FeedRatings,
   fmt : {"offset7", "other", "unparseable"}, at : FeedTimes]

ParseDate_Epoch(e, now) ==
  IF e.fmt = "offset7" THEN e.at
  ELSE IF e.fmt = "other" THEN StrfDate(e.at)
  ELSE 0

\* the 'Parse date' block: full format, else the date part, else now()
ParseDate(e, now) ==
  IF e.fmt = "offset7" THEN e.at
  ELSE IF e.fmt = "other" THEN StrfDate(e.at)
  ELSE now

IOSRecord(e, now) ==
  [platform |-> "iOS", rating |-> e.label, at |-> ParseDate(e, now),
   date |-> StrfDate(ParseDate(e, now))]

\* the loop over the entries of one page, appending to acc
RECURSIVE EntryLoop(_, _, _, _)
EntryLoop(entries, n, acc, now) ==
  IF n = 0 THEN acc
  ELSE LET prev == EntryLoop(entries, n - 1, acc, now)
           e == entries[n]
       IN IF e.kind = "bad" THEN prev
          ELSE IF PassesCutoff(ParseDate(e, now))
            THEN Append(prev, IOSRecord(e, now))
            ELSE prev


\* entries of a page that the entry loop gets through without an exception
Parseable(entries) ==
  Cardinality({i \in 1..Len(entries) : entries[i].kind # "bad"})

\* all_reviews after an iteration that ended the paging with a break
AfterBreak(acc) == acc

NextPage_Same(p) == p

\* 'for page in range(1, max_pages + 1)': the page of the next iteration
NextPage(p) == p + 1

\* leaving the page loop: scrape_app_store returns all_reviews
EndPaging(why) ==
  /\ ios_err' = why
  /\ pc' = "combine"
  /\ page' = page

\* one iteration of the page loop of scrape_app_store
FetchPage ==
  /\ pc = "scrape_app_store"
  /\ page \in 1..max_pages
  /\ \/ \* requests.get or response.json() raises: inner except, break
        /\ ios_reviews' = AfterBreak(ios_reviews)
        /\ EndPaging("exception")
        /\ UNCHANGED <<clock, ios_got, ios_blank>>
     \/ \* status_code != 200: break
        /\ ios_reviews' = AfterBreak(ios_reviews)
        /\ EndPaging("status")
        /\ UNCHANGED <<clock, ios_got, ios_blank>>
     \/ \* no 'feed' / 'entry' key: break
        /\ ios_reviews' = AfterBreak(ios_reviews)
        /\ EndPaging("nofeed")
        /\ UNCHANGED <<clock, ios_got, ios_blank>>
     \/ \E entries \in SeqsUpTo(IOSEntries, FeedLimit(MaxIOS) - Len(ios_reviews)) :
        \E now \in clock..Min(clock + 1, cutoff_date + Weeks(weeks_to_analyze) + MaxDrift) :
          /\ (now # clock) => \E i \in 1..Len(entries) : entries[i].fmt = "unparseable"
          /\ clock' = now
          /\ ios_reviews' = EntryLoop(entries, Len(entries), ios_reviews, now)
          /\ ios_got' = EntryLoop(entries, Len(entries), ios_reviews, now)
          /\ ios_blank' = IF ios_blank = 0 /\ Parseable(entries) = 0
                            THEN page ELSE ios_blank
          /\ IF page = max_pages
               THEN EndPaging("none")
               ELSE /\ page' = NextPage(page)
                    /\ UNCHANGED <<pc, ios_err>>
  /\ UNCHANGED <<entry, exit_status, log, faults, weeks_to_analyze, cutoff_date,
                 android_reviews, android_got, android_err, reviews_df, files>>
  /\ UNCHANGED <<analyzerVars, mailVars>>
  /\ UNCHANGED <<unit, setup>>

\* df.sort_values('date', ascending=False)
IsSortedDesc(s) == \A i \in 1..(Len(s) - 1) : s[i].date >= s[i + 1].date

SortValues_Unsorted(s) == {s}

\* the orders sort_values may produce (ties in any order)
SortValues(s) ==
  {t \in [1..Len(s) -> Range(s)] :
     /\ IsSortedDesc(t)
     /\ \E f \in [1..Len(s) -> 1..Len(s)] :
          /\ \A i, j \in 1..Len(s) : f[i] = f[j] => i = j
          /\ \A i \in 1..Len(s) : t[i] = s[f[i]]}

\* scrape_all after the two platform scrapes: concatenate; an empty list
\* gives the empty DataFrame, anything else is sorted
ScrapeAllCombine ==
  /\ pc = "combine"
  /\ LET all_reviews == android_reviews \o ios_reviews IN
       IF all_reviews = <<>>
         THEN reviews_df' = <<>>
         ELSE reviews_df' \in SortValues(all_reviews)
  /\ log' = Append(log, Ev("ret", "scrape_all"))
  /\ pc' = "scraped"
  /\ UNCHANGED <<entry, exit_status, clock, faults, weeks_to_analyze,
                 cutoff_date, android_reviews, android_got, android_err, page,
                 ios_reviews, ios_got, ios_err, ios_blank, files>>
  /\ UNCHANGED <<analyzerVars, mailVars>>
  /\ UNCHANGED <<unit, setup>>

IsEmpty_Never(df) == FALSE

\* reviews_df.empty
IsEmpty(df) == df = <<>>

\* the locals of scrape_all are gone once its caller goes on
ScrapeLocalsGone ==
  /\ android_reviews' = <<>>
  /\ android_got' = <<>>
  /\ android_err' = FALSE
  /\ page' = 0
  /\ ios_reviews' = <<>>
  /\ ios_got' = <<>>
  /\ ios_err' = "none"
  /\ ios_blank' = 0

\* scraper.py run as a script: save a non-empty collection, else say so
ScraperScriptEnd ==
  /\ pc = "scraped"
  /\ entry = "scraper"
  /\ ScrapeLocalsGone
  /\ IF IsEmpty(reviews_df)
       THEN /\ pc' = "done"
            /\ exit_status' = 0
            /\ UNCHANGED <<log, files>>
       ELSE \/ /\ files' = files \cup {"csv"}
               /\ log' = log \o <<Ev("call", "save_to_csv"), Ev("ret", "save_to_csv")>>
               /\ pc' = "done"
               /\ exit_status' = 0
            \/ /\ Propagate(<<Ev("call", "save_to_csv"), Ev("raise", "save_to_csv")>>)
               /\ UNCHANGED files
  /\ UNCHANGED <<entry, clock, faults, weeks_to_analyze, cutoff_date, reviews_df>>
  /\ UNCHANGED <<analyzerVars, mailVars>>
  /\ UNCHANGED <<unit, setup>>

\* ------------------------------------------------------ ios_scraper_rss.py
\* scrape_and_filter as the script calls it (weeks=10): the cutoff is taken
\* before the paging starts
ScrapeAndFilter ==
  /\ pc = "start"
  /\ entry = "ios_scraper_rss"
  /\ weeks_to_analyze' = ScriptWeeks
  /\ cutoff_date' = clock - Weeks(ScriptWeeks)
  /\ page' = 1
  /\ log' = Append(log, Ev("call", "scrape_and_filter"))
  /\ pc' = "rss_fetch"
  /\ UNCHANGED <<entry, exit_status, clock, faults, android_reviews, android_got,
                 android_err, ios_reviews, ios_got, ios_err, ios_blank, reviews_df,
                 files>>
  /\ UNCHANGED <<analyzerVars, mailVars>>
  /\ UNCHANGED <<unit, setup>>

\* entries the feed serves to this script: one the parser chokes on, one
\* dated before the cutoff, one whose date cannot be parsed
RssEntries ==
  {[kind |-> "bad", label |-> 0, fmt |-> "none", at |-> 0]} \cup
  [kind : {"ok"}, label : FeedRatings,
   fmt : IF Cardinality({i \in 1..Len(ios_reviews) : ~PassesCutoff(ios_reviews[i].at)})
            < MaxRssDated
           THEN {"offset7", "unparseable"} ELSE {"unparseable"},
   at : {cutoff_date - Window}]

\* _parse_reviews: every entry that parses becomes a record; no date filter
ParseReviews(entries, now) ==
  LET ok == SelectSeq(entries, LAMBDA e : e.kind # "bad")
  IN [i \in 1..Len(ok) |-> IOSRecord(ok[i], now)]

\* 'if not reviews: break'
RssGoesOn(reviews) == reviews # <<>>

\* one iteration of the page loop of scrape_reviews: _fetch_page gives [] on
\* an exception, a status other than 200 or a body without feed/entry
RssFetchPage ==
  /\ pc = "rss_fetch"
  /\ page \in 1..max_pages
  /\ \/ \E why \in {"exception", "status", "nofeed"} :
          /\ ios_err' = why
          /\ IF RssGoesOn(<<>>)
               THEN /\ pc' = IF page = max_pages THEN "rss_filter" ELSE pc
                    /\ page' = IF page = max_pages THEN page ELSE NextPage(page)
               ELSE /\ pc' = "rss_filter"
                    /\ page' = page
          /\ UNCHANGED <<clock, ios_reviews, ios_got, ios_blank>>
     \/ \E entries \in SeqsUpTo(RssEntries, 1) :
        \E now \in clock..Min(clock + 1, cutoff_date + Weeks(weeks_to_analyze) + MaxDrift) :
          /\ (now # clock) => \E i \in 1..Len(entries) : entries[i].fmt = "unparseable"
          /\ clock' = now
          /\ ios_reviews' = ios_reviews \o ParseReviews(entries, now)
          /\ ios_got' = ios_reviews \o ParseReviews(entries, now)
          /\ ios_blank' = IF ios_blank = 0 /\ ParseReviews(entries, now) = <<>>
                            THEN page ELSE ios_blank
          /\ IF RssGoesOn(ParseReviews(entries, now)) /\ page < max_pages
               THEN /\ page' = NextPage(page)
                    /\ UNCHANGED <<pc, ios_err>>
               ELSE /\ pc' = "rss_filter"
                    /\ page' = page
                    /\ ios_err' = IF ParseReviews(entries, now) = <<>> THEN "blank" ELSE "none"
  /\ UNCHANGED <<entry, exit_status, log, faults, weeks_to_analyze, cutoff_date,
                 android_reviews, android_got, android_err, reviews_df, files>>
  /\ UNCHANGED <<analyzerVars, mailVars>>
  /\ UNCHANGED <<unit, setup>>

\* scrape_and_filter after scrape_reviews: the date filter and the DataFrame
RssFilter ==
  /\ pc = "rss_filter"
  /\ reviews_df' = SelectSeq(ios_reviews, LAMBDA r : PassesCutoff(r.at))
  /\ log' = Append(log, Ev("ret", "scrape_and_filter"))
  /\ pc' = "done"
  /\ exit_status' = 0
  /\ UNCHANGED <<entry, clock, faults, weeks_to_analyze, cutoff_date,
                 android_reviews, android_got, android_err, page, ios_reviews,
                 ios_got, ios_err, ios_blank, files>>
  /\ UNCHANGED <<analyzerVars, mailVars>>
  /\ UNCHANGED <<unit, setup>>

\* --------------------------------------------------------- Orchestrator
MainNext_MailFirst(stage) ==
  CASE stage = "save_to_csv" -> "analyzer_init"
    [] stage = "analyze_reviews" -> "mailer_init"
    [] stage = "send_weekly_report" -> "generate_markdown"
    [] stage = "generate_markdown" -> "generate_pdf"
    [] stage = "generate_pdf" -> "summary"

\* the statement order of the try block of main(): where it goes on after
\* a stage has returned
MainNext(stage) ==
  CASE stage = "save_to_csv" -> "analyzer_init"
    [] stage = "analyze_reviews" -> "generate_markdown"
    [] stage = "generate_markdown" -> "generate_pdf"
    [] stage = "generate_pdf" -> "mailer_init"
    [] stage = "send_weekly_report" -> "summary"

\* main(): 'if reviews_df.empty: return'
MainEmptyReturn ==
  /\ pc = "scraped"
  /\ entry = "main"
  /\ IsEmpty(reviews_df)
  /\ ScrapeLocalsGone
  /\ pc' = "done"
  /\ exit_status' = 0
  /\ UNCHANGED <<entry, log, clock, faults, weeks_to_analyze, cutoff_date,
                 reviews_df, files>>
  /\ UNCHANGED <<analyzerVars, mailVars>>
  /\ UNCHANGED <<unit, setup>>

\* main(): scraper.save_to_csv(reviews_df); to_csv may fail
SaveToCsv ==
  /\ pc = "scraped"
  /\ entry = "main"
  /\ ~IsEmpty(reviews_df)
  /\ ScrapeLocalsGone
  /\ \/ /\ files' = files \cup {"csv"}
        /\ log' = log \o <<Ev("call", "save_to_csv"), Ev("ret", "save_to_csv")>>
        /\ pc' = MainNext("save_to_csv")
        /\ UNCHANGED <<exit_status, faults>>
     \/ /\ Fault
        /\ Propagate(<<Ev("call", "save_to_csv"), Ev("raise", "save_to_csv")>>)
        /\ UNCHANGED files
  /\ UNCHANGED <<entry, clock, weeks_to_analyze, cutoff_date, reviews_df>>
  /\ UNCHANGED <<analyzerVars, mailVars>>
  /\ UNCHANGED <<unit, setup>>

NoAnalysis == [kind |-> "none"]

\* ----------------------------------------------------------- Summarizer
\* ReviewAnalyzer.__init__: ValueError without GEMINI_API_KEY
ReviewAnalyzerInit ==
  /\ pc = "analyzer_init"
  /\ \/ /\ \E m \in MaxThemesChoices : max_themes' = m
        /\ log' = log \o <<Ev("call", "ReviewAnalyzer"), Ev("ret", "ReviewAnalyzer")>>
        /\ pc' = "extract_themes"
        /\ UNCHANGED <<exit_status, faults>>
     \/ /\ Fault
        /\ Propagate(<<Ev("call", "ReviewAnalyzer"), Ev("raise", "ReviewAnalyzer")>>)
        /\ UNCHANGED max_themes
  /\ UNCHANGED <<entry, clock, files, api, requests, themes, quotes, analysis>>
  /\ UNCHANGED <<scraperVars, mailVars>>
  /\ UNCHANGED <<unit, setup>>

ThemeKeys == {"theme", "description", "percentage"}

\* theme objects of an API response: all keys, or one of them missing
ApiThemes ==
  [name : {"t"}, keys : {ThemeKeys} \cup {ThemeKeys \ {k} : k \in ThemeKeys},
   percentage : {25}, review_count : {0}]

ReviewCount_Rounded(n, p) == (n * p + 50) \div 100

\* int(len(df) * P / 100): the quotient cut to an integer (n, p >= 0)
ReviewCount(n, p) == (n * p) \div 100

\* 'theme['review_count'] = ...': the derived count is stored in the theme,
\* replacing whatever the response carried under that key
WithReviewCount(t, n) ==
  [t EXCEPT !.keys = @ \cup {"review_count"},
            !.review_count = ReviewCount(n, t.percentage)]

\* _prepare_review_data: at most SampleLimit reviews go into the prompt
SampleSize(n) == IF n > SampleLimit THEN SampleLimit ELSE n

FallbackThemes(n) ==
  << [name |-> "KYC & Verification", keys |-> ThemeKeys \cup {"review_count"},
      percentage |-> 30, review_count |-> ReviewCount(n, 30)],
     [name |-> "Payment Issues", keys |-> ThemeKeys \cup {"review_count"},
      percentage |-> 25, review_count |-> ReviewCount(n, 25)],
     [name |-> "App Performance", keys |-> ThemeKeys \cup {"review_count"},
      percentage |-> 20, review_count |-> ReviewCount(n, 20)] >>

QuoteKeys == {"quote", "theme", "sentiment"}

ApiQuotes == [quote : {"q"}, keys : {QuoteKeys, QuoteKeys \ {"sentiment"}}]

FallbackQuotes ==
  << [quote |-> "KYC verification is taking too long", keys |-> QuoteKeys],
     [quote |-> "Great app for beginners", keys |-> QuoteKeys],
     [quote |-> "Withdrawal is stuck", keys |-> QuoteKeys] >>

\* items of a recommendation array: a string, or a number
ApiActions == [type : {"str", "num"}, val : {"a"}]

FallbackActions ==
  << [type |-> "str", val |-> "Reduce KYC verification time"],
     [type |-> "str", val |-> "Add real-time withdrawal status tracking"],
     [type |-> "str", val |-> "Improve app performance"] >>

\* the outcomes of one generate_content request: it raises, its text is no
\* JSON, or its text is a JSON array over items
ApiOutcomes(items) ==
  {[kind |-> "raise", json |-> <<>>], [kind |-> "nonjson", json |-> <<>>]} \cup
  [kind : {"json"}, json : SeqsUpTo(items, MaxApiItems)]

\* an outcome is free when it is a JSON array of well-formed items
WellFormed(o, good) ==
  o.kind = "json" /\ \A i \in 1..Len(o.json) : o.json[i] \in good

\* anomalous outcomes count against MaxFaults
Budget(o, good) ==
  IF WellFormed(o, good) THEN UNCHANGED faults ELSE Fault

\* the try block of _extract_themes on a parsed array: every theme needs
\* 'percentage', then the count is added and the list cut to max_themes
ThemesFromJson(json, n) ==
  IF \E i \in 1..Len(json) : "percentage" \notin json[i].keys
    THEN FallbackThemes(n)
    ELSE Take([i \in 1..Len(json) |-> WithReviewCount(json[i], n)], max_themes)

ExtractResult_EmptyOnError(o, n) ==
  IF o.kind = "json" THEN ThemesFromJson(o.json, n) ELSE <<>>

\* _extract_themes: any exception gives the fallback themes
ExtractResult(o, n) ==
  IF o.kind = "json" THEN ThemesFromJson(o.json, n) ELSE FallbackThemes(n)

\* a request: the step that issues it and the themes its prompt names
\* (themes[:3]; the theme prompt names none)
Request(step, ts) ==
  [step |-> step, themes |-> [i \in 1..Len(Take(ts, 3)) |-> ts[i].name]]

\* analyze_reviews, step 1
ExtractThemes ==
  /\ pc = "extract_themes"
  /\ requests' = Append(requests, Request("themes", <<>>))
  /\ \E o \in ApiOutcomes(ApiThemes) :
       /\ Budget(o, {t \in ApiThemes : t.keys = ThemeKeys})
       /\ api' = Append(api, o.kind)
       /\ themes' = ExtractResult(o, Len(reviews_df))
  /\ log' = Append(log, Ev("call", "analyze_reviews"))
  /\ pc' = "select_quotes"
  /\ UNCHANGED <<entry, exit_status, clock, files, max_themes, quotes, analysis>>
  /\ UNCHANGED <<scraperVars, mailVars>>
  /\ UNCHANGED <<unit, setup>>

\* the comprehension over themes[:3] outside the try block needs key k
NeedsKey(ts, k) == \E i \in 1..Len(Take(ts, 3)) : k \notin ts[i].keys

\* _select_quotes raises KeyError before its try block
QuotesRaises(ts) == NeedsKey(ts, "theme")

\* _select_quotes: any exception in the try block gives the fallback quotes
QuotesResult(o) ==
  IF o.kind = "json" THEN Take(o.json, 3) ELSE FallbackQuotes

\* analyze_reviews, step 2
SelectQuotes ==
  /\ pc = "select_quotes"
  /\ IF QuotesRaises(themes)
       THEN /\ Propagate(<<Ev("raise", "analyze_reviews")>>)
            /\ UNCHANGED <<api, requests, quotes, faults>>
       ELSE /\ \E o \in ApiOutcomes(ApiQuotes) :
                 /\ Budget(o, {q \in ApiQuotes : q.keys = QuoteKeys})
                 /\ api' = Append(api, o.kind)
                 /\ quotes' = QuotesResult(o)
            /\ requests' = Append(requests, Request("quotes", themes))
            /\ pc' = "generate_recommendations"
            /\ UNCHANGED <<exit_status, log>>
  /\ UNCHANGED <<entry, clock, files, max_themes, themes, analysis>>
  /\ UNCHANGED <<scraperVars, mailVars>>
  /\ UNCHANGED <<unit, setup>>

\* _generate_recommendations raises KeyError before its try block
ActionsRaises(ts) == NeedsKey(ts, "theme") \/ NeedsKey(ts, "description")

\* _generate_recommendations: any exception gives the fallback actions
ActionsResult(o) ==
  IF o.kind = "json" THEN Take(o.json, 3) ELSE FallbackActions

RECURSIVE SumRatings(_, _)
SumRatings(df, n) == IF n = 0 THEN 0 ELSE SumRatings(df, n - 1) + df[n].rating

\* round(df['rating'].mean(), 2), in hundredths
AvgRating(df) == (200 * SumRatings(df, Len(df)) + Len(df)) \div (2 * Len(df))

MinDate(df) == CHOOSE d \in {df[i].date : i \in 1..Len(df)} :
                 \A i \in 1..Len(df) : d <= df[i].date

MaxDate(df) == CHOOSE d \in {df[i].date : i \in 1..Len(df)} :
                 \A i \in 1..Len(df) : d >= df[i].date

\* the dict analyze_reviews returns
AnalysisResult(ts, qs, as, df) ==
  [kind |-> "simple", themes |-> ts, quotes |-> qs, actions |-> as,
   total_reviews |-> Len(df), avg_rating |-> AvgRating(df),
   date_range |-> [start |-> MinDate(df), end |-> MaxDate(df)]]

\* analyze_reviews, step 3 and the return
GenerateRecommendations ==
  /\ pc = "generate_recommendations"
  /\ IF ActionsRaises(themes)
       THEN /\ Propagate(<<Ev("raise", "analyze_reviews")>>)
            /\ UNCHANGED <<api, requests, analysis, faults>>
       ELSE /\ \E o \in ApiOutcomes(ApiActions) :
                 /\ Budget(o, {a \in ApiActions : a.type = "str"})
                 /\ api' = Append(api, o.kind)
                 /\ analysis' = AnalysisResult(themes, quotes, ActionsResult(o), reviews_df)
            /\ requests' = Append(requests, Request("actions", themes))
            /\ log' = Append(log, Ev("ret", "analyze_reviews"))
            /\ pc' = MainNext("analyze_reviews")
            /\ UNCHANGED exit_status
  /\ UNCHANGED <<entry, clock, files, max_themes, themes, quotes>>
  /\ UNCHANGED <<scraperVars, mailVars>>
  /\ UNCHANGED <<unit, setup>>

\* ------------------------------------------------------ Report Renderer
\* _build_markdown_content / _build_pdf_content raise KeyError on a theme
\* among the first three or on any quote that lacks a field they print
RenderRaises(a) ==
  \/ \E i \in 1..Len(Take(a.themes, 3)) :
       ~((ThemeKeys \cup {"review_count"}) \subseteq a.themes[i].keys)
  \/ \E i \in 1..Len(a.quotes) : ~(QuoteKeys \subseteq a.quotes[i].keys)

\* ReportGenerator() and generate_markdown: the file is written after the
\* content was built; writing may fail
GenerateMarkdown ==
  /\ pc = "generate_markdown"
  /\ IF RenderRaises(analysis)
       THEN /\ Propagate(<<Ev("call", "generate_markdown"), Ev("raise", "generate_markdown")>>)
            /\ UNCHANGED <<files, faults>>
       ELSE \/ /\ files' = files \cup {"md"}
               /\ log' = log \o <<Ev("call", "generate_markdown"), Ev("ret", "generate_markdown")>>
               /\ pc' = MainNext("generate_markdown")
               /\ UNCHANGED <<exit_status, faults>>
            \/ /\ Fault
               /\ Propagate(<<Ev("call", "generate_markdown"), Ev("raise", "generate_markdown")>>)
               /\ UNCHANGED files
  /\ UNCHANGED <<entry, clock>>
  /\ UNCHANGED <<scraperVars, analyzerVars, mailVars>>
  /\ UNCHANGED <<unit, setup>>

\* generate_pdf: the document is built from the same fields; the layout
\* engine or the write may fail
GeneratePdf ==
  /\ pc = "generate_pdf"
  /\ IF RenderRaises(analysis)
       THEN /\ Propagate(<<Ev("call", "generate_pdf"), Ev("raise", "generate_pdf")>>)
            /\ UNCHANGED <<files, faults>>
       ELSE \/ /\ files' = files \cup {"pdf"}
               /\ log' = log \o <<Ev("call", "generate_pdf"), Ev("ret", "generate_pdf")>>
               /\ pc' = MainNext("generate_pdf")
               /\ UNCHANGED <<exit_status, faults>>
            \/ /\ Fault
               /\ Propagate(<<Ev("call", "generate_pdf"), Ev("raise", "generate_pdf")>>)
               /\ UNCHANGED files
  /\ UNCHANGED <<entry, clock>>
  /\ UNCHANGED <<scraperVars, analyzerVars, mailVars>>
  /\ UNCHANGED <<unit, setup>>

\* ------------------------------------------------------------- Notifier
NoSmtp ==
  [outcome |-> "none", opened |-> 0, closed |-> 0, logins |-> 0,
   submitted |-> 0, attached |-> <<>>, existing |-> {}]

\* EmailMailer.__init__ / ExecutiveEmailMailer.__init__: ValueError without
\* GMAIL_ADDRESS or GMAIL_APP_PASSWORD
EmailMailerInit ==
  /\ pc = "mailer_init"
  /\ \/ /\ log' = log \o <<Ev("call", "EmailMailer"), Ev("ret", "EmailMailer")>>
        /\ pc' = "send"
        /\ UNCHANGED <<exit_status, faults>>
     \/ /\ Fault
        /\ Propagate(<<Ev("call", "EmailMailer"), Ev("raise", "EmailMailer")>>)
  /\ UNCHANGED <<entry, clock, files>>
  /\ UNCHANGED <<scraperVars, analyzerVars, mailVars>>
  /\ UNCHANGED <<unit, setup>>

\* how the 'with smtplib.SMTP_SSL(...)' block may go: the connect fails, the
\* login fails, send_message fails, the QUIT on leaving the block is refused
\* after the message was submitted, or everything succeeds
SmtpOutcomes == {"connect_fail", "login_fail", "send_fail", "quit_fail", "ok"}

SmtpRun_LeakOnError(o, att, disk) ==
  [outcome |-> o,
   opened |-> IF o = "connect_fail" THEN 0 ELSE 1,
   closed |-> IF o = "ok" THEN 1 ELSE 0,
   logins |-> IF o \in {"send_fail", "quit_fail", "ok"} THEN 1 ELSE 0,
   submitted |-> IF o \in {"quit_fail", "ok"} THEN 1 ELSE 0,
   attached |-> att, existing |-> disk]

\* the connection and the message after the block: leaving the 'with' block,
\* normally or by an exception, sends QUIT and closes the socket.  disk is
\* the set of report files that existed when the message was composed.
SmtpRun(o, att, disk) ==
  [outcome |-> o,
   opened |-> IF o = "connect_fail" THEN 0 ELSE 1,
   closed |-> IF o = "connect_fail" THEN 0 ELSE 1,
   logins |-> IF o \in {"send_fail", "quit_fail", "ok"} THEN 1 ELSE 0,
   submitted |-> IF o \in {"quit_fail", "ok"} THEN 1 ELSE 0,
   attached |-> att, existing |-> disk]

SendResult_TrueOnSendError(o) == IF o \in {"ok", "send_fail"} THEN "true" ELSE "false"

\* the value send_weekly_report returns: True after the block, False from
\* the except clause
SendResult(o) == IF o = "ok" THEN "true" ELSE "false"

\* _create_email_body on the simple result: prints four fields of each of
\* the first three themes and calls .get on an action that is no string
BodyRaises(a) ==
  \/ \E i \in 1..Len(Take(a.themes, 3)) :
       ~((ThemeKeys \cup {"review_count"}) \subseteq a.themes[i].keys)
  \/ \E i \in 1..Len(Take(a.actions, 3)) : a.actions[i].type # "str"

ExistingPaths_All(paths, disk) == paths

\* plain mailer: 'if os.path.exists(file_path)' - only the paths that exist
\* are attached
ExistingPaths(paths, disk) == SelectSeq(paths, LAMBDA f : f \in disk)

\* k anomalies at once, counted against MaxFaults
Faults(k) == faults + k <= MaxFaults /\ faults' = faults + k

\* EmailMailer.send_weekly_report as called by main(); report files may
\* have been removed from the disk since they were written
SendWeeklyReport ==
  /\ pc = "send"
  /\ report_paths' = <<"md", "pdf">>
  /\ IF BodyRaises(analysis)
       THEN /\ Propagate(<<Ev("call", "send_weekly_report"), Ev("raise", "send_weekly_report")>>)
            /\ UNCHANGED <<faults, smtp, email_sent>>
       ELSE /\ \E o \in SmtpOutcomes : \E gone \in SUBSET {"md", "pdf"} :
                 /\ Faults((IF o = "ok" THEN 0 ELSE 1) + (IF gone = {} THEN 0 ELSE 1))
                 /\ smtp' = SmtpRun(o, ExistingPaths(<<"md", "pdf">>, files \ gone),
                                    files \ gone)
                 /\ email_sent' = SendResult(o)
            /\ log' = log \o <<Ev("call", "send_weekly_report"), Ev("ret", "send_weekly_report")>>
            /\ pc' = MainNext("send_weekly_report")
            /\ UNCHANGED exit_status
  /\ UNCHANGED <<entry, clock, files>>
  /\ UNCHANGED <<scraperVars, analyzerVars>>
  /\ UNCHANGED <<unit, setup>>

EmailStatus_AlwaysSent(sent) == "Email: Sent"

\* the last line of the summary: 'Sent' if email_sent else 'Failed'
EmailStatus(sent) == IF sent = "true" THEN "Email: Sent" ELSE "Email: Failed"

\* main(): the summary block, then the normal end of the process
MainSummary ==
  /\ pc = "summary"
  /\ log' = Append(log, Ev("print", EmailStatus(email_sent)))
  /\ pc' = "done"
  /\ exit_status' = 0
  /\ UNCHANGED <<entry, clock, faults, files>>
  /\ UNCHANGED <<scraperVars, analyzerVars, mailVars>>
  /\ UNCHANGED <<unit, setup>>

\* ----------------------------------------------------- send_test_email.py
\* the script keeps the report paths that exist on disk
TestEmailPaths ==
  /\ pc = "start"
  /\ entry = "send_test_email"
  /\ \E existing \in SUBSET {"md", "pdf"} :
       /\ files' = existing
       /\ report_paths' = SelectSeq(<<"md", "pdf">>, LAMBDA f : f \in existing)
  /\ pc' = "visual_init"
  /\ UNCHANGED <<entry, exit_status, log, clock, faults, email_sent, smtp>>
  /\ UNCHANGED <<scraperVars, analyzerVars>>
  /\ UNCHANGED <<unit, setup>>

\* ExecutiveEmailMailer(): the ValueError is caught by the script
VisualMailerInit ==
  /\ pc = "visual_init"
  /\ \/ /\ log' = log \o <<Ev("call", "ExecutiveEmailMailer"), Ev("ret", "ExecutiveEmailMailer")>>
        /\ pc' = "visual_send"
        /\ UNCHANGED exit_status
     \/ /\ log' = log \o <<Ev("call", "ExecutiveEmailMailer"), Ev("raise", "ExecutiveEmailMailer")>>
        /\ pc' = "done"
        /\ exit_status' = 0
  /\ UNCHANGED <<entry, clock, faults, files>>
  /\ UNCHANGED <<scraperVars, analyzerVars, mailVars>>
  /\ UNCHANGED <<unit, setup>>

VisualAttach_SkipMissing(paths, disk) ==
  [raised |-> FALSE, attached |-> SelectSeq(paths, LAMBDA f : f \in disk)]

\* the attachment loop of the dashboard mailer: _attach_file opens every
\* path; a path that is not on the disk raises
VisualAttach(paths, disk) ==
  [raised |-> \E i \in 1..Len(paths) : paths[i] \notin disk,
   attached |-> IF \E i \in 1..Len(paths) : paths[i] \notin disk THEN <<>> ELSE paths]

\* ExecutiveEmailMailer.send_weekly_report: the whole body is one try block,
\* so an exception of the attachment loop ends in 'return False' like one of
\* the SMTP block.  Report files may have been removed since the script
\* listed them.
VisualSendWeeklyReport ==
  /\ pc = "visual_send"
  /\ \E gone \in SUBSET files :
       /\ files' = files \ gone
       /\ IF VisualAttach(report_paths, files \ gone).raised
            THEN /\ email_sent' = "false"
                 /\ smtp' = [NoSmtp EXCEPT !.outcome = "open_fail",
                                           !.existing = files \ gone]
            ELSE \E o \in SmtpOutcomes :
                   /\ smtp' = SmtpRun(o, VisualAttach(report_paths, files \ gone).attached,
                                      files \ gone)
                   /\ email_sent' = SendResult(o)
  /\ log' = log \o <<Ev("call", "send_weekly_report"), Ev("ret", "send_weekly_report")>>
  /\ pc' = "done"
  /\ exit_status' = 0
  /\ UNCHANGED <<entry, clock, faults, report_paths>>
  /\ UNCHANGED <<scraperVars, analyzerVars>>
  /\ UNCHANGED <<unit, setup>>

\* ------------------------------------------------- analyzer_executive.py
\* ExecutiveReviewAnalyzer(): ValueError without GEMINI_API_KEY
ExecAnalyzerInit ==
  /\ pc = "start"
  /\ entry = "executive"
  /\ \/ /\ log' = log \o <<Ev("call", "ExecutiveReviewAnalyzer"), Ev("ret", "ExecutiveReviewAnalyzer")>>
        /\ pc' = "exec_analyze"
        /\ UNCHANGED exit_status
     \/ Propagate(<<Ev("call", "ExecutiveReviewAnalyzer"), Ev("raise", "ExecutiveReviewAnalyzer")>>)
  /\ UNCHANGED <<entry, clock, faults, files>>
  /\ UNCHANGED <<scraperVars, analyzerVars, mailVars>>
  /\ UNCHANGED <<unit, setup>>

\* non-empty collections handed to the executive analyzer
ExecCollections ==
  {df \in SeqsUpTo([platform : {"Android"}, rating : ExecRatings,
                    at : {clock}, date : {StrfDate(clock)}], MaxExecReviews) :
     df # <<>>}

\* round(k / n * 100, 1), in tenths of a percent
PctTenths(k, n) == (2000 * k + n) \div (2 * n)

InBand_Gap(band, r) ==
  CASE band = "positive" -> r > 4
    [] band = "neutral" -> r = 3
    [] band = "negative" -> r <= 2

\* the sentiment band tests: df['rating'] >= 4, == 3, <= 2
InBand(band, r) ==
  CASE band = "positive" -> r >= 4
    [] band = "neutral" -> r = 3
    [] band = "negative" -> r <= 2

\* len(df[<band test>])
CountRated(df, band) == Cardinality({i \in 1..Len(df) : InBand(band, df[i].rating)})

\* the metadata both the API branch and the fallback attach
ExecMetadata(df) ==
  [total_reviews |-> Len(df), avg_rating |-> AvgRating(df),
   positive_pct |-> PctTenths(CountRated(df, "positive"), Len(df)),
   neutral_pct |-> PctTenths(CountRated(df, "neutral"), Len(df)),
   negative_pct |-> PctTenths(CountRated(df, "negative"), Len(df)),
   date_range |-> [start |-> MinDate(df), end |-> MaxDate(df)]]

ExecFallbackThemes(n) ==
  [i \in 1..3 |-> [FallbackThemes(n)[i] EXCEPT
     !.keys = @ \cup {"severity", "business_risk"}]]

\* _get_fallback_report
FallbackReport(df) ==
  [kind |-> "executive", source |-> "fallback",
   themes |-> ExecFallbackThemes(Len(df)), metadata |-> ExecMetadata(df)]

\* API responses of the executive request: it raises, its text is no JSON,
\* it is a JSON array (no object), or an object with a 'themes' array, which
\* may carry a 'metadata' member of its own ("object_meta")
ExecOutcomes ==
  {[kind |-> "raise", json |-> <<>>], [kind |-> "nonjson", json |-> <<>>],
   [kind |-> "array", json |-> <<>>]} \cup
  [kind : {"object", "object_meta"}, json : SeqsUpTo(ApiThemes, MaxApiItems)]

\* the 'metadata' member of a response that carries one: nothing in it is
\* taken from the collection
PayloadMetadata ==
  [total_reviews |-> 0, avg_rating |-> 0, positive_pct |-> 1000,
   neutral_pct |-> 0, negative_pct |-> 0, date_range |-> [start |-> 0, end |-> 0]]

ExecReport_TrustPayload(o, df) ==
  IF o.kind \in {"object", "object_meta"}
    THEN [kind |-> "executive", source |-> "api",
          themes |-> <<>>,
          metadata |-> IF o.kind = "object_meta" THEN PayloadMetadata
                       ELSE ExecMetadata(df)]
    ELSE FallbackReport(df)

\* the try block of _generate_executive_report and its except clause:
\* report['metadata'] is assigned after json.loads, whatever was parsed
ExecReport(o, df) ==
  IF /\ o.kind \in {"object", "object_meta"}
     /\ \A i \in 1..Len(o.json) : "percentage" \in o.json[i].keys
    THEN [kind |-> "executive", source |-> "api",
          themes |-> [i \in 1..Len(o.json) |-> WithReviewCount(o.json[i], Len(df))],
          metadata |-> ExecMetadata(df)]
    ELSE FallbackReport(df)

\* ExecutiveReviewAnalyzer.analyze_reviews on a collection
ExecAnalyzeReviews ==
  /\ pc = "exec_analyze"
  /\ \E df \in ExecCollections : \E o \in ExecOutcomes :
       /\ reviews_df' = df
       /\ api' = Append(api, o.kind)
       /\ analysis' = ExecReport(o, df)
  /\ requests' = Append(requests, Request("executive", <<>>))
  /\ log' = log \o <<Ev("call", "analyze_reviews"), Ev("ret", "analyze_reviews")>>
  /\ pc' = "done"
  /\ exit_status' = 0
  /\ UNCHANGED <<entry, clock, faults, files, weeks_to_analyze, cutoff_date,
                 android_reviews, android_got, android_err, page, ios_reviews,
                 ios_got, ios_err, ios_blank, max_themes, themes, quotes>>
  /\ UNCHANGED mailVars
  /\ UNCHANGED <<unit, setup>>

\* ---------------------------------------------- functions on their own
\* no function was applied on its own
NoUnit == [fn |-> "none"]

\* what a function applied on its own leaves alone
unitFrame == <<entry, exit_status, log, clock, faults, files>>

\* percentages a theme of the response may carry
PercentChoices == {0, 1, 25, 33, 50, 99, 100}

\* a theme object of a response, with or without a review_count of its own
CountedThemes ==
  [name : {"t"}, keys : {ThemeKeys, ThemeKeys \cup {"review_count"}},
   percentage : PercentChoices, review_count : {999}]

\* the calls of the count derivation: a theme and the size of the collection
ReviewCountCalls ==
  [fn : {"review_count"}, arg : [theme : CountedThemes, n : 1..MaxCollection],
   out : {<<>>}]

\* the loop body 'theme['review_count'] = int(len(df) * theme['percentage'] / 100)'
\* of _extract_themes and of _generate_executive_report
DeriveReviewCount ==
  /\ entry = "unit"
  /\ pc = "start"
  /\ unit.fn = "review_count"
  /\ unit' = [unit EXCEPT !.out = WithReviewCount(unit.arg.theme, unit.arg.n)]
  /\ pc' = "done"
  /\ UNCHANGED <<unitFrame, scraperVars, analyzerVars, mailVars, setup>>

\* A response text is a sequence of tokens: the code-fence marker, the word
\* json, white space ("nl"), the brackets of a JSON array, a string literal
\* ("str"), and the two halves of a string literal that has a fence marker
\* inside ("str_open", then the marker, then "str_close").
\* the code-fence marker: three backquotes
FenceTok == "fence"

\* the text of a JSON array of string literals, plain or with a marker inside
RECURSIVE Literals(_)
Literals(kinds) ==
  IF kinds = <<>> THEN <<>>
  ELSE (IF Head(kinds) = "plain" THEN <<"str">>
        ELSE <<"str_open", FenceTok, "str_close">>) \o Literals(Tail(kinds))

JsonText(kinds) == <<"[">> \o Literals(kinds) \o <<"]">>

\* the response around a payload: as it is, in a fence tagged json or in a
\* bare fence, with or without white space around the whole
Wrap(text, fence, pad) ==
  LET inner == CASE fence = "none" -> text
                 [] fence = "json" -> <<FenceTok, "json", "nl">> \o text \o <<"nl", FenceTok>>
                 [] fence = "bare" -> <<FenceTok, "nl">> \o text \o <<"nl", FenceTok>>
  IN IF pad THEN <<"nl">> \o inner \o <<"nl">> ELSE inner

\* str.strip()
RECURSIVE Strip(_)
Strip(t) ==
  IF t = <<>> THEN t
  ELSE IF Head(t) = "nl" THEN Strip(Tail(t))
  ELSE IF t[Len(t)] = "nl" THEN Strip(SubSeq(t, 1, Len(t) - 1))
  ELSE t

\* str.split(marker): the pieces between the markers
RECURSIVE SplitFence(_)
SplitFence(t) ==
  IF \A i \in 1..Len(t) : t[i] # FenceTok THEN <<t>>
  ELSE LET k == CHOOSE i \in 1..Len(t) :
                  t[i] = FenceTok /\ \A j \in 1..(i - 1) : t[j] # FenceTok
       IN <<SubSeq(t, 1, k - 1)>> \o SplitFence(SubSeq(t, k + 1, Len(t)))

\* the clean-up of a response before json.loads
CleanResponse(text) ==
  LET t == Strip(text) IN
    IF t # <<>> /\ Head(t) = FenceTok
      THEN LET piece == SplitFence(t)[2] IN
             IF piece # <<>> /\ Head(piece) = "json" THEN Tail(piece) ELSE piece
      ELSE t

\* the literals of a text that is nothing but string literals
RECURSIVE ParseLiterals(_)
ParseLiterals(t) ==
  IF t = <<>> THEN [ok |-> TRUE, value |-> <<>>]
  ELSE IF Head(t) = "str"
    THEN LET rest == ParseLiterals(Tail(t)) IN
           [ok |-> rest.ok, value |-> <<"plain">> \o rest.value]
  ELSE IF Len(t) >= 3 /\ t[1] = "str_open" /\ t[2] = FenceTok /\ t[3] = "str_close"
    THEN LET rest == ParseLiterals(SubSeq(t, 4, Len(t))) IN
           [ok |-> rest.ok, value |-> <<"fenced">> \o rest.value]
  ELSE [ok |-> FALSE, value |-> <<>>]

\* json.loads: white space around the document is allowed; anything that is
\* no array of literals raises (ok is FALSE)
JsonLoads(text) ==
  LET t == Strip(text) IN
    IF Len(t) >= 2 /\ t[1] = "[" /\ t[Len(t)] = "]"
      THEN LET r == ParseLiterals(SubSeq(t, 2, Len(t) - 1)) IN
             [ok |-> r.ok, value |-> IF r.ok THEN r.value ELSE <<>>]
      ELSE [ok |-> FALSE, value |-> <<>>]

\* the calls of the response parser: a payload and the way it is wrapped
ParseCalls ==
  [fn : {"parse_response"},
   arg : [payload : SeqsUpTo({"plain", "fenced"}, MaxApiItems),
          fence : {"none", "json", "bare"}, pad : BOOLEAN],
   out : {<<>>}]

\* response.text.strip(), the clean-up and json.loads, as in _extract_themes,
\* _select_quotes, _generate_recommendations and _generate_executive_report,
\* on the payload as it is and on the wrapped payload
ParseResponse ==
  /\ entry = "unit"
  /\ pc = "start"
  /\ unit.fn = "parse_response"
  /\ unit' = [unit EXCEPT !.out =
       [unfenced |-> JsonLoads(CleanResponse(JsonText(unit.arg.payload))),
        wrapped |-> JsonLoads(CleanResponse(
                      Wrap(JsonText(unit.arg.payload), unit.arg.fence, unit.arg.pad)))]]
  /\ pc' = "done"
  /\ UNCHANGED <<unitFrame, scraperVars, analyzerVars, mailVars, setup>>

\* the 'Report generated on' stamp, strftime('%B %d, %Y at %I:%M %p'): the
\* time of rendering to the minute; at the resolution of ticks, the finest
\* there is here, that is the tick
FooterStamp(now) == now

BuildMarkdownContent_Stamped(a, now) ==
  [period |-> [start |-> now, end |-> now], total |-> a.total_reviews,
   avg |-> a.avg_rating, themes |-> Take(a.themes, 3), quotes |-> a.quotes,
   actions |-> a.actions, footer |-> FooterStamp(now)]

\* _build_markdown_content: the Markdown text, part by part
BuildMarkdownContent(a, now) ==
  [period |-> a.date_range, total |-> a.total_reviews, avg |-> a.avg_rating,
   themes |-> Take(a.themes, 3), quotes |-> a.quotes, actions |-> a.actions,
   footer |-> FooterStamp(now)]

\* _build_pdf_content: the story; meta is the metadata table
BuildPdfContent(a, now) ==
  [meta |-> <<a.date_range, a.total_reviews, a.avg_rating>>,
   themes |-> Take(a.themes, 3), quotes |-> a.quotes, actions |-> a.actions,
   footer |-> FooterStamp(now)]

\* results of ReviewAnalyzer.analyze_reviews handed to a renderer
SimpleAnalyses ==
  {AnalysisResult(FallbackThemes(Len(df)), qs, FallbackActions, df) :
     df \in ExecCollections, qs \in {<<>>, FallbackQuotes}}

\* results of ExecutiveReviewAnalyzer.analyze_reviews handed to a renderer
ExecutiveAnalyses == {FallbackReport(df) : df \in ExecCollections}

\* the calls of the renderer: an analysis result rendered twice, the second
\* time delay ticks after the first
RenderCalls ==
  [fn : {"render"}, arg : [analysis : SimpleAnalyses, delay : 0..MaxDrift],
   out : {<<>>}]

\* ReportGenerator: the Markdown and the PDF content of one analysis
\* result, built twice
Render ==
  /\ entry = "unit"
  /\ pc = "start"
  /\ unit.fn = "render"
  /\ clock' = clock + unit.arg.delay
  /\ unit' = [unit EXCEPT !.out =
       [md1 |-> BuildMarkdownContent(unit.arg.analysis, clock),
        md2 |-> BuildMarkdownContent(unit.arg.analysis, clock'),
        pdf1 |-> BuildPdfContent(unit.arg.analysis, clock),
        pdf2 |-> BuildPdfContent(unit.arg.analysis, clock')]]
  /\ pc' = "done"
  /\ UNCHANGED <<entry, exit_status, log, faults, files>>
  /\ UNCHANGED <<scraperVars, analyzerVars, mailVars, setup>>

\* 'N/A' and 0, the defaults of the executive renderer
NotAvailable == -1

\* ReportGenerator: report period, review count and average rating are read
\* from the top-level keys; a result without them raises KeyError
ReportHeader(a) ==
  IF a.kind = "simple"
    THEN [raised |-> FALSE, period |-> a.date_range, total |-> a.total_reviews,
          avg |-> a.avg_rating]
    ELSE [raised |-> TRUE, period |-> [start |-> NotAvailable, end |-> NotAvailable],
          total |-> 0, avg |-> 0]

\* ExecutiveReportGenerator: analysis.get('metadata', {}) and defaults for
\* what it lacks
ExecutiveHeader(a) ==
  IF a.kind = "executive"
    THEN [raised |-> FALSE, period |-> a.metadata.date_range,
          total |-> a.metadata.total_reviews, avg |-> a.metadata.avg_rating]
    ELSE [raised |-> FALSE, period |-> [start |-> NotAvailable, end |-> NotAvailable],
          total |-> 0, avg |-> 0]

\* the calls of the two renderers on the two kinds of analysis result
HeaderCalls ==
  [fn : {"render_header"},
   arg : [analysis : SimpleAnalyses \cup ExecutiveAnalyses,
          renderer : {"ReportGenerator", "ExecutiveReportGenerator"},
          format : {"md", "pdf"}],
   out : {<<>>}]

\* the head of the report (Markdown lines or PDF metadata table) as either
\* renderer builds it; both formats read the same keys
RenderHeader ==
  /\ entry = "unit"
  /\ pc = "start"
  /\ unit.fn = "render_header"
  /\ unit' = [unit EXCEPT !.out =
       IF unit.arg.renderer = "ReportGenerator"
         THEN ReportHeader(unit.arg.analysis)
         ELSE ExecutiveHeader(unit.arg.analysis)]
  /\ pc' = "done"
  /\ UNCHANGED <<unitFrame, scraperVars, analyzerVars, mailVars, setup>>

ExecSampleSize_Uncapped(low, mid, high) == low + mid + high

\* ExecutiveReviewAnalyzer._prepare_review_data: len(df_sample) for a
\* collection with low reviews rated <= 2, mid rated 3 and high rated >= 4
ExecSampleSize(low, mid, high) ==
  IF low + mid + high > ExecSampleLimit
    THEN Min(LowCap, low) + Min(MidCap, mid) + Min(HighCap, high)
    ELSE low + mid + high

\* the calls of the input reduction: the sizes of the three rating bands
SampleCalls ==
  [fn : {"sample"},
   arg : [low : {0, 100, 101}, mid : {0, 50, 51, 200}, high : {0, 1, 150, 151, 300}],
   out : {<<>>}]

\* _prepare_review_data of both analyzers: how many reviews are serialized
\* into the prompt
PrepareReviewData ==
  /\ entry = "unit"
  /\ pc = "start"
  /\ unit.fn = "sample"
  /\ unit' = [unit EXCEPT !.out =
       [simple |-> SampleSize(unit.arg.low + unit.arg.mid + unit.arg.high),
        executive |-> ExecSampleSize(unit.arg.low, unit.arg.mid, unit.arg.high)]]
  /\ pc' = "done"
  /\ UNCHANGED <<unitFrame, scraperVars, analyzerVars, mailVars, setup>>

\* save_to_csv without a file name: 'data/raw/groww_reviews_' and
\* strftime('%Y%m%d_%H%M%S'), the time of the call to the second; at the
\* resolution of ticks that is the tick
CsvPath(now) == [dir |-> "data/raw", stamp |-> now, ext |-> "csv"]

ReportPath_ByInstant(now, ext) == [dir |-> "reports", stamp |-> now, ext |-> ext]

\* generate_markdown / generate_pdf without an output path:
\* 'reports/weekly_report_' and strftime('%Y%m%d'), the day of the call
ReportPath(now, ext) == [dir |-> "reports", stamp |-> StrfDate(now), ext |-> ext]

\* the instants of one run of main(): its start and its calls of
\* save_to_csv, generate_markdown and generate_pdf, in that order
RunTimes ==
  {r \in [start : clock..(clock + DayLen), csv : clock..(clock + DayLen),
          md : clock..(clock + DayLen), pdf : clock..(clock + DayLen)] :
     r.start <= r.csv /\ r.csv <= r.md /\ r.md <= r.pdf}

\* the calls of the default paths: two runs of the pipeline, the second
\* writing its files after the first
PathCalls ==
  [fn : {"paths"}, arg : [first : RunTimes, second : RunTimes], out : {<<>>}]

\* the three default paths of a run
RunPaths(r) ==
  [csv |-> CsvPath(r.csv), md |-> ReportPath(r.md, "md"), pdf |-> ReportPath(r.pdf, "pdf")]

\* the files two runs leave: every file is opened for writing, so a path
\* both runs use holds what the second run wrote
DefaultPaths ==
  /\ entry = "unit"
  /\ pc = "start"
  /\ unit.fn = "paths"
  /\ unit' = [unit EXCEPT !.out =
       LET a == RunPaths(unit.arg.first)
           b == RunPaths(unit.arg.second)
       IN [first |-> a, second |-> b,
           disk |-> [f \in {a.csv, a.md, a.pdf, b.csv, b.md, b.pdf} |->
                       IF f \in {b.csv, b.md, b.pdf} THEN "second" ELSE "first"]]]
  /\ pc' = "done"
  /\ UNCHANGED <<unitFrame, scraperVars, analyzerVars, mailVars, setup>>

\* the calls of the entry parser: one feed entry with its real submission
\* time (long ago, just before the run, during the run), the configured
\* weeks, and the ticks between the cutoff being taken and the entry being
\* parsed
ParseEntryCalls ==
  [fn : {"parse_entry"},
   arg : [entry : [kind : {"ok"}, label : FeedRatings,
                   fmt : {"offset7", "other", "unparseable"},
                   at : {0, clock - Weeks(ScriptWeeks) - 1, clock - 1, clock}],
          weeks : {0, MaxWeeks, ScriptWeeks}, delay : 0..MaxDrift],
   out : {<<>>}]

\* ReviewScraper.__init__ and the first lines of scrape_and_filter: the
\* cutoff is taken; time passes until the entry is parsed
TakeCutoff ==
  /\ entry = "unit"
  /\ pc = "start"
  /\ unit.fn = "parse_entry"
  /\ weeks_to_analyze' = unit.arg.weeks
  /\ cutoff_date' = clock - Weeks(unit.arg.weeks)
  /\ clock' = clock + unit.arg.delay
  /\ pc' = "parse"
  /\ UNCHANGED <<entry, exit_status, log, faults, files, android_reviews,
                 android_got, android_err, page, ios_reviews, ios_got, ios_err,
                 ios_blank, reviews_df>>
  /\ UNCHANGED <<analyzerVars, mailVars, unit, setup>>

\* one entry through the entry loop of scrape_app_store, and through
\* _parse_reviews and the filter of scrape_and_filter
ParseEntry ==
  /\ entry = "unit"
  /\ pc = "parse"
  /\ unit.fn = "parse_entry"
  /\ unit' = [unit EXCEPT !.out =
       [scraper |-> EntryLoop(<<unit.arg.entry>>, 1, <<>>, clock),
        rss |-> SelectSeq(ParseReviews(<<unit.arg.entry>>, clock),
                          LAMBDA r : PassesCutoff(r.at))]]
  /\ pc' = "done"
  /\ UNCHANGED <<unitFrame, scraperVars, analyzerVars, mailVars, setup>>

\* ----------------------------------------------------------- configure.py
\* A line typed at a prompt is a sequence of characters.
\* the settings file: absent, as an earlier setup left it ("old"), as this
\* run wrote it ("written", with the values), or cut short by a failed write
AbsentEnv == [state |-> "absent", values |-> <<>>]

OldEnv == [state |-> "old", values |-> <<>>]

NoSetup ==
  [env0 |-> AbsentEnv, env |-> AbsentEnv, asked |-> <<>>, overwrite |-> <<>>,
   values |-> <<>>]

\* the settings file when the script starts
SetupStarts ==
  {[NoSetup EXCEPT !.env0 = e, !.env = e] : e \in {AbsentEnv, OldEnv}}

\* str.strip() of a typed line
RECURSIVE StripLine(_)
StripLine(t) ==
  IF t = <<>> THEN t
  ELSE IF Head(t) = " " THEN StripLine(Tail(t))
  ELSE IF t[Len(t)] = " " THEN StripLine(SubSeq(t, 1, Len(t) - 1))
  ELSE t

\* str.lower()
LowerLine(t) ==
  [i \in 1..Len(t) |->
     CASE t[i] = "Y" -> "y" [] t[i] = "E" -> "e" [] t[i] = "S" -> "s"
       [] t[i] = "N" -> "n" [] t[i] = "O" -> "o" [] OTHER -> t[i]]

\* str.replace(" ", "")
RemoveSpaces(t) == SelectSeq(t, LAMBDA c : c # " ")

\* lines typed at the overwrite prompt
OverwriteAnswers ==
  {<<"y">>, <<"Y">>, <<"y", "e", "s">>, <<" ", "Y", "e", "S", " ">>,
   <<"n", "o">>, <<>>, <<"y", "e">>, <<"y", " ", "e", "s">>,
   <<"y", "e", "s", "!">>, <<" ">>}

\* 'overwrite not in ['yes', 'y']' is false
Confirms(line) ==
  LowerLine(StripLine(line)) \in {<<"y", "e", "s">>, <<"y">>}

AfterOverwrite_Always(line) == "collect"

\* where the script goes on after the answer to the overwrite prompt
AfterOverwrite(line) == IF Confirms(line) THEN "collect" ELSE "exited"

\* the five values asked for, in the order of the prompts, and the default of
\* each ('or "10"', 'or "5"'; the others have none)
ValuePrompts ==
  <<"gemini_key", "gmail_address", "gmail_password", "weeks", "max_themes">>

ValueDefault(name) ==
  CASE name = "weeks" -> <<"1", "0">>
    [] name = "max_themes" -> <<"5">>
    [] OTHER -> <<>>

\* lines typed at a value prompt
ValueAnswers == {<<>>, <<" ", "a", " ", "b", " ">>}

\* what the script keeps of the line typed at a value prompt
ValueOf(name, line) ==
  LET t == StripLine(line) IN
    IF name = "gmail_password" THEN RemoveSpaces(t)
    ELSE IF t = <<>> THEN ValueDefault(name) ELSE t

\* input() is interrupted (Ctrl-C, end of input): the handlers at the bottom
\* of the script print and call sys.exit(1)
Interrupted ==
  /\ Propagate(<<Ev("raise", "input")>>)
  /\ UNCHANGED setup

configureFrame ==
  <<entry, clock, faults, files, scraperVars, analyzerVars, mailVars, unit>>

\* main() up to 'if os.path.exists(env_path)': the 'Press Enter' prompt
ConfigureIntro ==
  /\ entry = "configure"
  /\ pc = "start"
  /\ \/ /\ setup' = [setup EXCEPT !.asked = Append(@, "enter")]
        /\ pc' = IF setup.env.state = "absent" THEN "collect" ELSE "ask_overwrite"
        /\ UNCHANGED <<exit_status, log>>
     \/ Interrupted
  /\ UNCHANGED configureFrame

\* the overwrite prompt: sys.exit(0) unless the answer confirms
ConfigureOverwrite ==
  /\ entry = "configure"
  /\ pc = "ask_overwrite"
  /\ \/ \E line \in OverwriteAnswers :
          /\ setup' = [setup EXCEPT !.asked = Append(@, "overwrite"),
                                    !.overwrite = line]
          /\ pc' = AfterOverwrite(line)
          /\ exit_status' = IF AfterOverwrite(line) = "exited" THEN 0 ELSE exit_status
          /\ UNCHANGED log
     \/ Interrupted
  /\ UNCHANGED configureFrame

\* one of the five value prompts
ConfigureCollect ==
  /\ entry = "configure"
  /\ pc = "collect"
  /\ LET name == ValuePrompts[Len(setup.values) + 1] IN
       \/ \E line \in ValueAnswers :
            /\ setup' = [setup EXCEPT !.asked = Append(@, name),
                                      !.values = Append(@, ValueOf(name, line))]
            /\ pc' = IF Len(setup.values) + 1 = Len(ValuePrompts)
                       THEN "write" ELSE "collect"
            /\ UNCHANGED <<exit_status, log>>
       \/ Interrupted
  /\ UNCHANGED configureFrame

\* 'with open(env_path, 'w') as f: f.write(env_content)' and the closing
\* messages: open may fail (the file stays as it was), the write may fail
\* after open has emptied the file
ConfigureWrite ==
  /\ entry = "configure"
  /\ pc = "write"
  /\ \/ /\ setup' = [setup EXCEPT !.env = [state |-> "written", values |-> setup.values]]
        /\ pc' = "done"
        /\ exit_status' = 0
        /\ UNCHANGED log
     \/ /\ Propagate(<<Ev("raise", "open")>>)
        /\ UNCHANGED setup
     \/ /\ Propagate(<<Ev("raise", "write")>>)
        /\ setup' = [setup EXCEPT !.env = [state |-> "partial", values |-> <<>>]]
  /\ UNCHANGED configureFrame

\* ---------------------------------------------------------- the system
Entries ==
  {"main", "scraper", "ios_scraper_rss", "send_test_email", "executive", "configure"}

\* a process that has just started: nothing constructed, nothing written
Fresh ==
  /\ pc = "start"
  /\ exit_status = -1
  /\ log = <<>>
  /\ clock \in StartClocks
  /\ faults = 0
  /\ weeks_to_analyze = -1
  /\ cutoff_date = -1
  /\ android_reviews = <<>>
  /\ android_got = <<>>
  /\ android_err = FALSE
  /\ page = 0
  /\ ios_reviews = <<>>
  /\ ios_got = <<>>
  /\ ios_err = "none"
  /\ ios_blank = 0
  /\ reviews_df = <<>>
  /\ files = {}
  /\ max_themes = -1
  /\ api = <<>>
  /\ requests = <<>>
  /\ themes = <<>>
  /\ quotes = <<>>
  /\ analysis = NoAnalysis
  /\ report_paths = <<>>
  /\ email_sent = "none"
  /\ smtp = NoSmtp

Init ==
  /\ entry \in Entries
  /\ Fresh
  /\ unit = NoUnit
  /\ setup \in (IF entry = "configure" THEN SetupStarts ELSE {NoSetup})

Next ==
  \/ ReviewScraperInit
  \/ ScrapePlayStore
  \/ FetchPage
  \/ ScrapeAllCombine
  \/ ScraperScriptEnd
  \/ MainEmptyReturn
  \/ SaveToCsv
  \/ ReviewAnalyzerInit
  \/ ExtractThemes
  \/ SelectQuotes
  \/ GenerateRecommendations
  \/ GenerateMarkdown
  \/ GeneratePdf
  \/ EmailMailerInit
  \/ SendWeeklyReport
  \/ MainSummary
  \/ TestEmailPaths
  \/ VisualMailerInit
  \/ VisualSendWeeklyReport
  \/ ExecAnalyzerInit
  \/ ExecAnalyzeReviews
  \/ ConfigureIntro
  \/ ConfigureOverwrite
  \/ ConfigureCollect
  \/ ConfigureWrite
  \/ ScrapeAndFilter
  \/ RssFetchPage
  \/ RssFilter

Spec == Init /\ [][Next]_vars

\* the two collecting scripts on their own.  requests.get is called with
\* timeout=10, so an iteration of either page loop ends: the loops are
\* weakly fair.
CollectInit ==
  /\ entry \in {"scraper", "ios_scraper_rss"}
  /\ Fresh
  /\ unit = NoUnit
  /\ setup = NoSetup

CollectNext ==
  \/ ReviewScraperInit
  \/ ScrapePlayStore
  \/ FetchPage
  \/ ScrapeAllCombine
  \/ ScraperScriptEnd
  \/ ScrapeAndFilter
  \/ RssFetchPage
  \/ RssFilter

CollectSpec ==
  CollectInit /\ [][CollectNext]_vars /\ WF_vars(FetchPage) /\ WF_vars(RssFetchPage)

\* the functions applied on their own, each on one argument
UnitCalls ==
  ReviewCountCalls \cup ParseCalls \cup RenderCalls \cup HeaderCalls \cup SampleCalls
    \cup PathCalls \cup ParseEntryCalls

UnitInit ==
  /\ entry = "unit"
  /\ Fresh
  /\ unit \in UnitCalls
  /\ setup = NoSetup

UnitNext ==
  \/ DeriveReviewCount
  \/ ParseResponse
  \/ Render
  \/ RenderHeader
  \/ PrepareReviewData
  \/ DefaultPaths
  \/ TakeCutoff
  \/ ParseEntry

UnitSpec == UnitInit /\ [][UnitNext]_vars

\* ------------------------------------------------------------ properties
StageOrder ==
  <<"scrape_all", "save_to_csv", "analyze_reviews", "generate_markdown",
    "generate_pdf", "send_weekly_report">>

StageCalls ==
  SelectSeq(log, LAMBDA e : e.ev = "call" /\ e.fn \in Range(StageOrder))

\* position of the first event e in the log (0 when absent)
FirstPos(e) ==
  IF \E i \in 1..Len(log) : log[i] = e
    THEN CHOOSE i \in 1..Len(log) : log[i] = e /\ \A j \in 1..(i - 1) : log[j] # e
    ELSE 0

\* C1: in a run of main() the stages are called in the order scrape_all,
\* save_to_csv, analyze_reviews, generate_markdown, generate_pdf,
\* send_weekly_report, each one only after the previous one has returned, and
\* send_weekly_report only once both report files exist.
C1_StagesInOrder ==
  entry = "main" =>
    /\ \A i \in 1..Len(StageCalls) : StageCalls[i].fn = StageOrder[i]
    /\ \A k \in 2..Len(StageOrder) :
         Called(StageOrder[k]) =>
           /\ Returned(StageOrder[k - 1])
           /\ FirstPos(Ev("ret", StageOrder[k - 1])) < FirstPos(Ev("call", StageOrder[k]))
    /\ Called("send_weekly_report") => {"md", "pdf"} \subseteq files

C1_Witness ==
  /\ entry = "main"
  /\ pc = "done"
  /\ Returned("send_weekly_report")
  /\ Len(StageCalls) = 6

\* C2: when scrape_all returns the empty collection, main() stops: the
\* summarizer is never invoked, no report file is written and no email send
\* is attempted.
C2_EmptyStops ==
  (entry = "main" /\ Returned("scrape_all") /\ reviews_df = <<>>) =>
    /\ ~Called("analyze_reviews")
    /\ api = <<>>
    /\ files \cap {"md", "pdf"} = {}
    /\ ~Called("send_weekly_report")
    /\ smtp = NoSmtp

C2_Witness ==
  /\ entry = "main"
  /\ pc = "done"
  /\ Returned("scrape_all")
  /\ reviews_df = <<>>
  /\ exit_status = 0

\* C3: once a stage or a stage constructor has raised inside main(), nothing
\* is called after it and the process ends with exit status 1.
C3_RaiseAborts ==
  entry = "main" =>
    \A i \in 1..Len(log) :
      log[i].ev = "raise" =>
        /\ i = Len(log)
        /\ pc = "exited"
        /\ exit_status = 1

C3_Witness ==
  /\ entry = "main"
  /\ Raised("generate_markdown")
  /\ RenderRaises(analysis)
  /\ exit_status = 1
  /\ ~Called("generate_pdf")

ApiFailed(k) == k <= Len(api) /\ api[k] \in {"raise", "nonjson"}

\* C4 as claimed: when some request of ReviewAnalyzer raised or returned
\* non-JSON text, themes, quotes and recommendations all equal their fallback.
C4_Original ==
  (analysis.kind = "simple" /\ \E k \in 1..3 : ApiFailed(k)) =>
    /\ analysis.themes = FallbackThemes(analysis.total_reviews)
    /\ analysis.quotes = FallbackQuotes
    /\ analysis.actions = FallbackActions

\* C4: each part of the result falls back on its own: when the theme (quote,
\* recommendation) request raised or returned non-JSON text, the themes
\* (quotes, recommendations) of the result equal their documented fallback.
C4_PerPartFallback ==
  analysis.kind = "simple" =>
    /\ ApiFailed(1) => analysis.themes = FallbackThemes(analysis.total_reviews)
    /\ ApiFailed(2) => analysis.quotes = FallbackQuotes
    /\ ApiFailed(3) => analysis.actions = FallbackActions

C4_Witness ==
  /\ analysis.kind = "simple"
  /\ ApiFailed(1)
  /\ api[2] = "json"
  /\ analysis.themes = FallbackThemes(analysis.total_reviews)
  /\ analysis.quotes # FallbackQuotes

\* C5: analyze_reviews never raises to its caller, whatever the API returns.
C5_NeverRaises == ~Raised("analyze_reviews")

\* C6: the platform scrapes never raise; an error on a page ends the iOS
\* paging; a feed that fails on its first request gives the empty list for
\* its platform; and the records of the other platform are still returned.
C6_CollectionNeverFails ==
  entry \in {"main", "scraper"} =>
    /\ ~Raised("scrape_all")
    /\ ios_err # "none" => pc \in {"combine", "scraped"}
    /\ (ios_err # "none" /\ page = 1) => ios_reviews = <<>>
    /\ (android_err /\ android_got = <<>>) => android_reviews = <<>>
    /\ (pc = "scraped" /\ android_err) => Len(reviews_df) = Len(ios_reviews)
    /\ (pc = "scraped" /\ ios_err # "none" /\ page = 1) =>
         Len(reviews_df) = Len(android_reviews)

C6_Witness ==
  /\ pc = "scraped"
  /\ android_err
  /\ ios_err = "exception"
  /\ page = 2
  /\ Len(reviews_df) = 1

\* C7: the records a platform scrape obtained before an error are in its
\* result, for Android as for iOS.
C7_RecordsRetained ==
  pc \in {"combine", "scraped"} =>
    /\ android_err => android_reviews = android_got
    /\ ios_err # "none" => ios_reviews = ios_got

\* C8: an error of the SMTP connect, login or send makes send_weekly_report
\* return False without raising; it returns True only after login and
\* send_message both completed; at most one message is submitted.
C8_SmtpErrorsAreFalse ==
  /\ smtp.outcome \in {"connect_fail", "login_fail", "send_fail"} =>
       /\ email_sent = "false"
       /\ Returned("send_weekly_report")
       /\ ~Raised("send_weekly_report")
  /\ email_sent = "true" => (smtp.logins = 1 /\ smtp.submitted = 1)
  /\ smtp.submitted <= 1

C8_Witness ==
  /\ entry = "main"
  /\ smtp.outcome = "login_fail"
  /\ email_sent = "false"
  /\ pc = "done"
  /\ exit_status = 0

\* C9 as claimed: no record of the collection has a date earlier than the
\* cutoff instant.
C9_Original ==
  entry \in {"main", "scraper"} =>
    \A i \in 1..Len(reviews_df) : reviews_df[i].date >= cutoff_date

\* C9: every record of the collection was submitted at or after the cutoff
\* instant, and its date, which keeps the calendar day only, is not earlier
\* than the calendar day of the cutoff.
C9_CutoffByInstant ==
  entry \in {"main", "scraper"} =>
    \A i \in 1..Len(reviews_df) :
      /\ reviews_df[i].at >= cutoff_date
      /\ reviews_df[i].date >= StrfDate(cutoff_date)

C9_Witness ==
  /\ pc = "scraped"
  /\ \E i, j \in 1..Len(reviews_df) :
       /\ reviews_df[i].platform = "Android"
       /\ reviews_df[j].platform = "iOS"
       /\ reviews_df[i].date < cutoff_date
       /\ reviews_df[j].date < cutoff_date

Occurrences(s, x) == Cardinality({i \in 1..Len(s) : s[i] = x})

\* C10: a non-empty result of scrape_all has as many records as the two
\* platform scrapes returned together, the same records, sorted by date
\* descending.
C10_CombinedSorted ==
  (pc = "scraped" /\ reviews_df # <<>>) =>
    /\ Len(reviews_df) = Len(android_reviews) + Len(ios_reviews)
    /\ \A r \in Range(reviews_df) \cup Range(android_reviews \o ios_reviews) :
         Occurrences(reviews_df, r) = Occurrences(android_reviews \o ios_reviews, r)
    /\ \A i \in 1..(Len(reviews_df) - 1) : reviews_df[i].date >= reviews_df[i + 1].date

C10_Witness ==
  /\ pc = "scraped"
  /\ Len(android_reviews) = 2
  /\ Len(ios_reviews) = 1
  /\ android_reviews[1].date < android_reviews[2].date
  /\ android_reviews[2].date < ios_reviews[1].date

UnitDone(f) == entry = "unit" /\ pc = "done" /\ unit.fn = f

\* C11: the review_count of a theme with percentage P in a collection of N
\* reviews is floor(N * P / 100), N being the size of the whole collection
\* (200 and 25 give 50, 7 and 33 give 2), and it replaces a review_count the
\* response carried.
C11_ReviewCountIsFloor ==
  UnitDone("review_count") =>
    LET n == unit.arg.n
        p == unit.arg.theme.percentage
        c == unit.out.review_count
    IN /\ "review_count" \in unit.out.keys
       /\ 100 * c <= n * p
       /\ n * p < 100 * (c + 1)
       /\ (n = 200 /\ p = 25) => c = 50
       /\ (n = 7 /\ p = 33) => c = 2

C11_Witness ==
  /\ UnitDone("review_count")
  /\ unit.arg.n > SampleSize(unit.arg.n)
  /\ unit.arg.theme.percentage = 33
  /\ "review_count" \in unit.arg.theme.keys
  /\ unit.out.review_count = 66
  /\ unit.out.review_count # unit.arg.theme.review_count

\* C12: the sentiment bands of an executive analysis partition the
\* collection: every review is positive (rating >= 4), neutral (rating = 3) or
\* negative (rating <= 2) and never two of them, the reported percentages are
\* those of the three band counts, the counts add up to the number of
\* reviews, and the percentages add up to 100.0 give or take one tenth.
C12_BandsPartition ==
  (entry = "executive" /\ pc = "done" /\ analysis.kind = "executive") =>
    LET df == reviews_df
        m == analysis.metadata
        pos == Cardinality({i \in 1..Len(df) : df[i].rating >= 4})
        neu == Cardinality({i \in 1..Len(df) : df[i].rating = 3})
        neg == Cardinality({i \in 1..Len(df) : df[i].rating <= 2})
    IN /\ pos + neu + neg = Len(df)
       /\ m.positive_pct = PctTenths(pos, Len(df))
       /\ m.neutral_pct = PctTenths(neu, Len(df))
       /\ m.negative_pct = PctTenths(neg, Len(df))
       /\ m.positive_pct + m.neutral_pct + m.negative_pct \in 999..1001

C12_Witness ==
  /\ entry = "executive"
  /\ pc = "done"
  /\ Len(reviews_df) = 3
  /\ analysis.metadata.positive_pct = 333
  /\ analysis.metadata.neutral_pct = 333
  /\ analysis.metadata.negative_pct = 333

\* the aggregate statistics of an analysis result
Stats(a) ==
  IF a.kind = "executive" THEN a.metadata
  ELSE [total_reviews |-> a.total_reviews, avg_rating |-> a.avg_rating,
        date_range |-> a.date_range]

\* C13: the aggregate statistics of an analysis result are a function of the
\* collection: whatever the API returned, they are the review count, mean
\* rating, band percentages and date span of the collection, and an analysis
\* of the same collection with any other API outcome (a payload with its own
\* 'metadata', a failure) carries the same statistics.
C13_StatsFromCollection ==
  /\ analysis.kind = "executive" =>
       /\ Stats(analysis).total_reviews = Len(reviews_df)
       /\ Stats(analysis).avg_rating = AvgRating(reviews_df)
       /\ Stats(analysis).date_range.start = MinDate(reviews_df)
       /\ Stats(analysis).date_range.end = MaxDate(reviews_df)
       /\ \A o \in ExecOutcomes : Stats(ExecReport(o, reviews_df)) = Stats(analysis)
  /\ analysis.kind = "simple" =>
       /\ Stats(analysis).total_reviews = Len(reviews_df)
       /\ Stats(analysis).avg_rating = AvgRating(reviews_df)
       /\ Stats(analysis).date_range.start = MinDate(reviews_df)
       /\ Stats(analysis).date_range.end = MaxDate(reviews_df)
       /\ \A o \in ApiOutcomes(ApiActions) :
            Stats(AnalysisResult(themes, quotes, ActionsResult(o), reviews_df))
              = Stats(analysis)

C13_Witness ==
  /\ entry = "executive"
  /\ pc = "done"
  /\ api = <<"object_meta">>
  /\ analysis.source = "api"
  /\ Len(reviews_df) = 2
  /\ analysis.metadata # PayloadMetadata

\* C14: a response that is a JSON payload wrapped in a code fence tagged json
\* or in a bare code fence is parsed to the same structure as the payload on its own.
C14_FenceTransparent ==
  UnitDone("parse_response") =>
    /\ unit.out.unfenced.ok
    /\ unit.out.wrapped = unit.out.unfenced

\* pages of the iOS feed that scrape_app_store has requested
Requested == IF pc \in {"scrape_app_store", "rss_fetch"} THEN page - 1 ELSE page

\* C15: once a page of the iOS feed has given no parseable entry (no entry,
\* or only entries that fail to parse), no further page is requested.
C15_StopsOnBlankPage ==
  (entry \in {"main", "scraper"} /\ ios_blank # 0) => Requested <= ios_blank

\* C16: the plain mailer attaches exactly the report paths that exist, one
\* attachment each, in list order; a missing path is skipped without an
\* exception and the send is still attempted, also when every path is
\* missing.
C16_MissingPathsSkipped ==
  (entry = "main" /\ Called("send_weekly_report") /\ ~BodyRaises(analysis)) =>
    /\ smtp.attached = SelectSeq(report_paths, LAMBDA f : f \in smtp.existing)
    /\ Returned("send_weekly_report")
    /\ smtp.outcome \in SmtpOutcomes
    /\ smtp.outcome = "ok" => smtp.submitted = 1

C16_Witness ==
  /\ entry = "main"
  /\ Returned("send_weekly_report")
  /\ smtp.existing \cap {"md", "pdf"} = {}
  /\ smtp.attached = <<>>
  /\ smtp.submitted = 1
  /\ email_sent = "true"

\* some report path was not on the disk when the dashboard mailer was called
VisualPathMissing ==
  /\ entry = "send_test_email"
  /\ Called("send_weekly_report")
  /\ \E i \in 1..Len(report_paths) : report_paths[i] \notin smtp.existing

\* C17 as claimed: a report path that does not exist makes the dashboard
\* mailer raise to its caller.
C17_Original == VisualPathMissing => Raised("send_weekly_report")

\* C17: the dashboard mailer opens every report path without looking whether
\* it exists; a path that does not exist makes the call fail instead of
\* skipping the file: it returns False, nothing is attached, no connection is
\* opened and no message is submitted, and nothing is raised to the caller.
\* When every path exists all of them are attached.
C17_MissingPathFails ==
  /\ VisualPathMissing =>
       /\ Returned("send_weekly_report")
       /\ ~Raised("send_weekly_report")
       /\ email_sent = "false"
       /\ smtp.attached = <<>>
       /\ smtp.opened = 0
       /\ smtp.submitted = 0
  /\ (entry = "send_test_email" /\ Called("send_weekly_report") /\ ~VisualPathMissing) =>
       smtp.attached = report_paths

C17_Witness ==
  /\ VisualPathMissing
  /\ Len(report_paths) = 2
  /\ smtp.existing = {"md"}
  /\ email_sent = "false"
  /\ pc = "done"
  /\ exit_status = 0

\* C18: whenever send_weekly_report has returned, True or False, every
\* connection it opened is closed: after a failed login, a failed
\* send_message, a refused QUIT, and after success.
C18_ConnectionClosed ==
  /\ smtp.closed = smtp.opened
  /\ Returned("send_weekly_report") =>
       /\ email_sent \in {"true", "false"}
       /\ smtp.outcome \in {"login_fail", "send_fail", "quit_fail", "ok"} =>
            (smtp.opened = 1 /\ smtp.closed = 1)

C18_Witness ==
  /\ entry = "send_test_email"
  /\ Returned("send_weekly_report")
  /\ smtp.outcome = "send_fail"
  /\ smtp.opened = 1
  /\ smtp.closed = 1
  /\ email_sent = "false"

\* C19 as claimed: rendering an analysis result twice gives the same
\* Markdown text and the same PDF metadata table.
C19_Original ==
  UnitDone("render") =>
    /\ unit.out.md1 = unit.out.md2
    /\ unit.out.pdf1.meta = unit.out.pdf2.meta

\* C19: rendering an analysis result twice gives a Markdown text that is the
\* same in every part but the 'Report generated on' line, which carries the
\* time of rendering (so the texts are equal when rendered within the same
\* minute), and a PDF with the same metadata table.
C19_SameButFooter ==
  UnitDone("render") =>
    /\ [unit.out.md1 EXCEPT !.footer = 0] = [unit.out.md2 EXCEPT !.footer = 0]
    /\ unit.out.md2.footer = unit.out.md1.footer + unit.arg.delay
    /\ unit.arg.delay = 0 => unit.out.md1 = unit.out.md2
    /\ unit.out.pdf1.meta = unit.out.pdf2.meta
    /\ unit.out.md1.period = unit.arg.analysis.date_range

C19_Witness ==
  /\ UnitDone("render")
  /\ unit.arg.delay > 0
  /\ unit.out.md1 # unit.out.md2
  /\ unit.out.pdf1.meta = unit.out.pdf2.meta
  /\ Len(unit.out.md1.quotes) = 3

\* C20: neither renderer raises on either kind of analysis result; for a
\* result without 'metadata' the report period, review count and average
\* rating shown are the top-level fields, and for a result with 'metadata'
\* they are the nested ones.
C20_BothSchemasRender ==
  UnitDone("render_header") =>
    LET a == unit.arg.analysis IN
      /\ ~unit.out.raised
      /\ a.kind = "simple" =>
           /\ unit.out.period = a.date_range
           /\ unit.out.total = a.total_reviews
           /\ unit.out.avg = a.avg_rating
      /\ a.kind = "executive" =>
           /\ unit.out.period = a.metadata.date_range
           /\ unit.out.total = a.metadata.total_reviews
           /\ unit.out.avg = a.metadata.avg_rating

\* C21: the analysis result of ReviewAnalyzer has at most max_themes themes,
\* at most 3 quotes and at most 3 recommendations, whatever the API
\* returned, also when the theme request failed and the fallback themes are
\* used.
C21_AtMostMaxThemes ==
  (entry = "main" /\ analysis.kind = "simple") =>
    /\ Len(analysis.themes) <= max_themes
    /\ Len(analysis.quotes) <= 3
    /\ Len(analysis.actions) <= 3

\* C22: every record of the collection scrape_all returns has a rating
\* between 1 and 5, on both platforms and whatever the feeds contain, iOS
\* entries without a rating field included.
C22_RatingsInBounds ==
  entry \in {"main", "scraper"} =>
    \A i \in 1..Len(reviews_df) : reviews_df[i].rating \in 1..5

\* C23: the setup script overwrites an existing settings file only with
\* explicit confirmation: when the file exists and the answer to the
\* overwrite prompt, trimmed and lower-cased, is neither 'yes' nor 'y', the
\* file is left as it was and the process exits with status 0; and in every
\* run the file is touched only after every prompt was answered, so a setup
\* interrupted at a prompt leaves it unchanged.
C23_OverwriteOnlyConfirmed ==
  entry = "configure" =>
    /\ ("overwrite" \in Range(setup.asked) /\ ~Confirms(setup.overwrite)) =>
         /\ setup.env = setup.env0
         /\ pc = "exited"
         /\ exit_status = 0
    /\ setup.env # setup.env0 =>
         /\ \A i \in 1..Len(ValuePrompts) : ValuePrompts[i] \in Range(setup.asked)
         /\ "enter" \in Range(setup.asked)
         /\ setup.env0.state # "absent" => Confirms(setup.overwrite)
    /\ Raised("input") => (setup.env = setup.env0 /\ exit_status = 1)
    /\ setup.env.state = "written" =>
         /\ Len(setup.env.values) = 5
         /\ setup.env.values[4] # <<>>
         /\ setup.env.values[5] # <<>>
         /\ \A i \in 1..Len(setup.env.values[3]) : setup.env.values[3][i] # " "

C23_Witness ==
  /\ entry = "configure"
  /\ setup.env0 = OldEnv
  /\ setup.overwrite = <<"y", "e", "s", "!">>
  /\ setup.env = OldEnv
  /\ exit_status = 0

\* the steps of the requests issued so far
Steps == [i \in 1..Len(requests) |-> requests[i].step]

\* C24: every call of ReviewAnalyzer.analyze_reviews, once over (returned or
\* raised), has issued exactly three requests, in the order themes, quotes,
\* recommendations, whatever the earlier requests gave, none of them twice,
\* and the prompts of the second and third name the themes the first step
\* produced; a call of ExecutiveReviewAnalyzer.analyze_reviews issues one.
C24_ThreeRequests ==
  /\ (entry = "main" /\ (Returned("analyze_reviews") \/ Raised("analyze_reviews"))) =>
       /\ Steps = <<"themes", "quotes", "actions">>
       /\ Len(api) = 3
       /\ requests[2].themes = Request("quotes", themes).themes
       /\ requests[3].themes = Request("actions", themes).themes
  /\ (entry = "executive" /\ Returned("analyze_reviews")) =>
       Steps = <<"executive">>

\* C25: for a collection of N reviews the prompt of the simple analyzer
\* holds min(N, 200) of them; that of the executive analyzer holds all N
\* when N <= 300 and otherwise min(100, L) + min(50, M) + min(150, H), L, M
\* and H being the numbers of reviews rated <= 2, = 3 and >= 4, so never more
\* than 300.
C25_SampleSizes ==
  UnitDone("sample") =>
    LET L == unit.arg.low
        M == unit.arg.mid
        H == unit.arg.high
        N == L + M + H
    IN /\ unit.out.simple <= 200
       /\ unit.out.simple <= N
       /\ (unit.out.simple = N) \/ (unit.out.simple = 200)
       /\ N <= 300 => unit.out.executive = N
       /\ N > 300 =>
            unit.out.executive =
              (IF L < 100 THEN L ELSE 100) + (IF M < 50 THEN M ELSE 50)
                + (IF H < 150 THEN H ELSE 150)
       /\ unit.out.executive <= 300

C25_Witness ==
  /\ UnitDone("sample")
  /\ unit.arg.low + unit.arg.mid + unit.arg.high > 300
  /\ unit.arg.mid > 50
  /\ unit.arg.high < 150
  /\ unit.out.executive < 300
  /\ unit.out.simple = 200

\* a page loop of the iOS feed is running
Paging == pc \in {"scrape_app_store", "rss_fetch"}

\* C26: the iOS page loop is bounded and ends, whatever the feed does: at
\* most max_pages (10) pages are requested, each iteration that goes on
\* requests the page after the one before (so pages 1, 2, ... in increasing
\* order and none twice), and the loop is always left.
C26_PagingBounded ==
  /\ [](Requested \in 0..max_pages /\ (Paging => page \in 1..max_pages))
  /\ [][(Paging /\ Paging') => page' = page + 1]_vars
  /\ [][(~Paging /\ Paging') => page' = 1]_vars
  /\ Paging ~> ~Paging

C26_Witness ==
  /\ entry \in {"scraper", "ios_scraper_rss"}
  /\ pc \in {"scraped", "done"}
  /\ page = max_pages
  /\ ios_err = "none"
  /\ ios_reviews # <<>>

\* C27: a failed email send is no abort: after send_weekly_report returned
\* False, main() goes on to the summary block, which reports the email as
\* failed (as sent after True), and the process ends with exit status 0; the
\* exit status is 1 only when an exception reached the orchestrator, and
\* then no summary is printed.
C27_SendFailureIsNoAbort ==
  entry = "main" =>
    /\ email_sent = "false" =>
         /\ pc \in {"summary", "done"}
         /\ ~Raised("send_weekly_report")
         /\ pc = "done" =>
              /\ exit_status = 0
              /\ log[Len(log)] = Ev("print", "Email: Failed")
    /\ email_sent = "true" =>
         (pc = "done" => log[Len(log)] = Ev("print", "Email: Sent"))
    /\ exit_status = 1 <=> \E i \in 1..Len(log) : log[i].ev = "raise"
    /\ exit_status = 1 => \A i \in 1..Len(log) : log[i].ev # "print"

C27_Witness ==
  /\ entry = "main"
  /\ email_sent = "false"
  /\ smtp.outcome = "send_fail"
  /\ pc = "done"
  /\ exit_status = 0
  /\ log[Len(log)] = Ev("print", "Email: Failed")

\* C28: the mail credentials are looked at only when the mailer is
\* constructed, after both reports were generated: when they are absent the
\* run ends with exit status 1, by then the CSV, Markdown and PDF files are
\* written and the three summarization requests were issued, no SMTP
\* connection is opened, nothing is sent, and the files stay on the disk.
C28_CredentialsCheckedLast ==
  entry = "main" =>
    /\ Called("EmailMailer") =>
         /\ Returned("generate_pdf")
         /\ {"csv", "md", "pdf"} \subseteq files
         /\ Len(requests) = 3
    /\ Raised("EmailMailer") =>
         /\ pc = "exited"
         /\ exit_status = 1
         /\ {"csv", "md", "pdf"} \subseteq files
         /\ Steps = <<"themes", "quotes", "actions">>
         /\ ~Called("send_weekly_report")
         /\ smtp = NoSmtp
         /\ email_sent = "none"

C28_Witness ==
  /\ entry = "main"
  /\ Raised("EmailMailer")
  /\ exit_status = 1
  /\ files = {"csv", "md", "pdf"}
  /\ smtp.opened = 0

\* C29 as claimed: two runs started on the same calendar day write the
\* Markdown and the PDF report to the same paths, and two runs started at
\* different instants write the CSV to different paths.
C29_Original ==
  UnitDone("paths") =>
    LET a == unit.arg.first
        b == unit.arg.second
    IN /\ StrfDate(a.start) = StrfDate(b.start) =>
            /\ unit.out.first.md = unit.out.second.md
            /\ unit.out.first.pdf = unit.out.second.pdf
       /\ a.start # b.start => unit.out.first.csv # unit.out.second.csv

\* C29: each default path is made from the clock when the file is written,
\* not when the run started: two runs write the Markdown (PDF) report to the
\* same path exactly when generate_markdown (generate_pdf) is called on the
\* same calendar day in both, and then the file holds the report of the
\* later run; they write the CSV to the same path exactly when save_to_csv
\* is called at the same instant (second) in both.
C29_PathsByTimeOfWrite ==
  UnitDone("paths") =>
    LET a == unit.arg.first
        b == unit.arg.second
        o == unit.out
    IN /\ (o.first.md = o.second.md) <=> (StrfDate(a.md) = StrfDate(b.md))
       /\ (o.first.pdf = o.second.pdf) <=> (StrfDate(a.pdf) = StrfDate(b.pdf))
       /\ (o.first.csv = o.second.csv) <=> (a.csv = b.csv)
       /\ o.disk[o.first.md] = "first" <=> StrfDate(a.md) # StrfDate(b.md)
       /\ o.disk[o.first.pdf] = "first" <=> StrfDate(a.pdf) # StrfDate(b.pdf)
       /\ o.disk[o.first.csv] = "first" <=> a.csv # b.csv
       /\ o.disk[o.second.md] = "second"

C29_Witness ==
  /\ UnitDone("paths")
  /\ unit.arg.first.start # unit.arg.second.start
  /\ StrfDate(unit.arg.first.start) = StrfDate(unit.arg.second.start)
  /\ unit.out.first.csv = unit.out.second.csv
  /\ unit.out.first.md # unit.out.second.md
  /\ unit.out.first.pdf = unit.out.second.pdf

\* C30: an iOS entry whose date can be read in neither format gets the
\* time of parsing as its date and is kept by the cutoff filter, for every
\* number of weeks >= 0 and whatever its real submission time, in
\* scrape_app_store as in the RSS scraper; it is neither dropped nor an
\* error.  An entry whose date can be read is kept only when it is not
\* before the cutoff.
C30_UndatedEntryKept ==
  UnitDone("parse_entry") =>
    LET e == unit.arg.entry IN
      /\ e.fmt = "unparseable" =>
           /\ Len(unit.out.scraper) = 1
           /\ unit.out.scraper[1].at = clock
           /\ unit.out.scraper[1].date = StrfDate(clock)
           /\ Len(unit.out.rss) = 1
           /\ unit.out.rss[1].at = clock
      /\ (e.fmt = "offset7" /\ e.at < cutoff_date) =>
           (unit.out.scraper = <<>> /\ unit.out.rss = <<>>)

C30_Witness ==
  /\ UnitDone("parse_entry")
  /\ unit.arg.entry.fmt = "unparseable"
  /\ unit.arg.entry.at < cutoff_date
  /\ unit.arg.weeks = 0
  /\ unit.arg.delay > 0
  /\ Len(unit.out.scraper) = 1
  /\ Len(unit.out.rss) = 1

====
